---------------------------- MODULE Spec2Model ----------------------------
(***************************************************************************)
(* The billing-incident ETL pipeline of Codigo/: the phrase filter run in  *)
(* chunks, the inner join with the Billing Coordinators table, the         *)
(* categorisation of incidents, the per-agent performance and issue        *)
(* tables and the final report.                                            *)
(*                                                                         *)
(* A table (pandas DataFrame) is a sequence of rows; a row is a record     *)
(* whose domain is the table's columns.  A cell is a record                *)
(* [kind, num, txt]: a number, a text or the missing value NaN.            *)
(***************************************************************************)
EXTENDS Integers, Sequences, FiniteSets, TLC

VARIABLES
    files,              \* the paths at which a file exists
    db_sheet,           \* the rows of the sheet DB as read_excel returns them
    coordinators_sheet, \* the rows of the Billing Coordinators workbook
    pc,                 \* position of the run
    db_data,            \* the incident table (sheet DB)
    coordinators_data,  \* the Billing Coordinators table
    chunk_size,         \* ChunkProcessor.chunk_size
    processed_chunks,   \* ChunkProcessor.processed_chunks
    chunk_start,        \* the next start of ChunkProcessor._chunk_generator
    clean_data,         \* result of the phrase filter
    enriched_data,      \* result of the join (and of the agent filter)
    categorized_data,   \* result of categorize_incidents
    performance,        \* result of calculate_billing_coordinator_performance
    issues,             \* result of aggregate_by_issue
    inventory,          \* result of aggregate_by_inventory
    report,             \* the sheets written by export_final_report
    merge_stats,        \* what merge_with_billing_coordinators printed
    agent_stats,        \* what filter_by_agents printed
    tie_pick,           \* which of the values tied for the highest count
                        \* value_counts() lists first on this installation
    error               \* the exception raised, "none" when none

vars == <<files, coordinators_sheet, db_sheet, pc, db_data, coordinators_data, chunk_size, processed_chunks,
          chunk_start, clean_data, enriched_data, categorized_data, performance, issues,
          report, merge_stats, agent_stats, tie_pick, inventory, error>>

----------------------------------------------------------------------------
(* Cells *)

\* the two input files
DB_FILE_PATH == "2025-08 DB WF.xlsb"
COORDINATORS_FILE_PATH == "Billing Coordinators.xlsx"

\* the tied values value_counts() may list first, numbered as first met
MaxTied == 3
TiePicks == 1..MaxTied

NaN == [kind |-> "nan", num |-> 0, txt |-> ""]
Num(n) == [kind |-> "num", num |-> n, txt |-> ""]
Str(s) == [kind |-> "str", num |-> 0, txt |-> s]

\* col in df.columns: a row is a record of its columns; a table without
\* rows keeps the columns of the schema
HasColumn(df, col) == df = <<>> \/ col \in DOMAIN df[1]

isna(c) == c.kind = "nan"

(* Sequence helpers *)
RECURSIVE Concat(_)
Concat(tables) ==
    IF tables = <<>> THEN <<>> ELSE Head(tables) \o Concat(Tail(tables))

Range(s) == {s[i] : i \in DOMAIN s}

----------------------------------------------------------------------------
(* config.py *)

\* the vocabulary with one task text listed under two categories
INCIDENT_CATEGORIES_Duplicate == <<
    [name |-> "Contrato", tasks |-> <<"COMMAND - Assign Contract">>],
    [name |-> "Interface", tasks |-> <<"COMMAND - Interface Errors">>],
    [name |-> "Incomplete", tasks |-> <<"COMMAND - Interface Errors",
                                        "COMMAND - Incomplete Orders">>],
    [name |-> "Inventory", tasks |-> <<"COMMAND - Ticket not Goods Issued">>] >>

INCIDENT_CATEGORIES == <<
    [name |-> "Contrato", tasks |-> <<
        "Error Shipto related to Contract",
        "JWS/APEX - Assign Contract",
        "COMMAND - Assign Contract",
        "COMMAND - Process Error Shipto/Contract",
        "JWS/APEX - Process Error Shipto/Contract">>],
    [name |-> "Pricing", tasks |-> <<
        "COMMAND - Pricing Incomplete",
        "JWS/APEX - Pricing Incomplete",
        "JWS/APEX - Shipment cost not transferred",
        "COMMAND - Shipment cost not transferred",
        "No Accounting Document for Billing Doc">>],
    [name |-> "Interface", tasks |-> <<
        "JWS/APEX - Interface Errors",
        "COMMAND - Interface Errors",
        "JWS/APEX - Process Valuation type error">>],
    [name |-> "Incomplete", tasks |-> <<
        "JWS/APEX - Incomplete Deliveries",
        "JWS/APEX - Incomplete Orders",
        "JWS/APEX - Ticket Inco Terms",
        "COMMAND - Incomplete Orders",
        "COMMAND - Ticket Inco Terms",
        "COMMAND - Incomplete Deliveries">>],
    [name |-> "STPO", tasks |-> <<
        "JWS/APEX - STPO Errors">>],
    [name |-> "Inventory", tasks |-> <<
        "COMMAND - Ticket not Goods Issued",
        "JWS/APEX - Ticket not Goods Issued">>] >>

(* The dict built by the two nested loops: a later assignment to the same  *)
(* key replaces the earlier one.                                           *)
RECURSIVE BuildIndex(_, _)
BuildIndex(cats, index) ==
    IF cats = <<>> THEN index
    ELSE LET c == Head(cats)
             new == [t \in Range(c.tasks) |-> c.name]
         IN  BuildIndex(Tail(cats), new @@ index)

TASK_TO_CATEGORY == BuildIndex(INCIDENT_CATEGORIES, <<>>)

----------------------------------------------------------------------------
(* transformation.categorize_incidents *)

\* Series.map(dict): the dict's value for a key it holds, NaN otherwise
MapCategory(task) ==
    IF task.kind = "str" /\ task.txt \in DOMAIN TASK_TO_CATEGORY
    THEN Str(TASK_TO_CATEGORY[task.txt])
    ELSE NaN

\* fillna('Other')
FillOther(c) == IF isna(c) THEN "Other" ELSE c.txt

CategorizeRow(r) ==
    [col \in DOMAIN r \cup {"Category"} |->
        IF col = "Category" THEN FillOther(MapCategory(r.Task_text)) ELSE r[col]]

categorize_incidents(df) == [i \in DOMAIN df |-> CategorizeRow(df[i])]

\* df['Task text'] raises KeyError when the column is absent
CategorizeError(df) == IF HasColumn(df, "Task_text") THEN "none" ELSE "KeyError"

----------------------------------------------------------------------------
(* processing.filter_batchman_vectorized *)

(* A text is a sequence of characters, each a one-character string; the   *)
(* characters that have no printable form are named by their code point.  *)
NBSP == "U+00A0"
InvisibleChars == {"U+00A0", "U+200B", "U+200C", "U+200D", "U+FEFF"}
\* the characters the regular expression \s matches
WhitespaceChars == {" ", "\t", "\n", "\r", "U+00A0"}

UpperLetters == <<"A", "B", "C", "D", "E", "F", "G", "H", "I", "J", "K", "L", "M",
                  "N", "O", "P", "Q", "R", "S", "T", "U", "V", "W", "X", "Y", "Z">>
LowerLetters == <<"a", "b", "c", "d", "e", "f", "g", "h", "i", "j", "k", "l", "m",
                  "n", "o", "p", "q", "r", "s", "t", "u", "v", "w", "x", "y", "z">>

LowerChar(c) ==
    IF \E i \in 1..26 : UpperLetters[i] = c
    THEN LowerLetters[CHOOSE i \in 1..26 : UpperLetters[i] = c] ELSE c
UpperChar(c) ==
    IF \E i \in 1..26 : LowerLetters[i] = c
    THEN UpperLetters[CHOOSE i \in 1..26 : LowerLetters[i] = c] ELSE c

\* str.lower(), str.upper()
StrLower(s) == [i \in DOMAIN s |-> LowerChar(s[i])]
StrUpper(s) == [i \in DOMAIN s |-> UpperChar(s[i])]

RECURSIVE Digits(_)
Digits(n) == IF n < 10 THEN <<ToString(n)>> ELSE Digits(n \div 10) \o <<ToString(n % 10)>>

\* astype(str): the missing value becomes the text 'nan'
AsTypeStr(c) ==
    CASE c.kind = "nan" -> <<"n", "a", "n">>
      [] c.kind = "num" -> IF c.num < 0 THEN <<"-">> \o Digits(-c.num) ELSE Digits(c.num)
      [] OTHER -> c.txt

\* a replacement that knows the non-breaking space only
ReplaceNbspOnly(s) == [i \in DOMAIN s |-> IF s[i] = NBSP THEN " " ELSE s[i]]

\* str.replace(r'[\u00A0\u200B\u200C\u200D\uFEFF]', ' ', regex=True)
ReplaceInvisible(s) == [i \in DOMAIN s |-> IF s[i] \in InvisibleChars THEN " " ELSE s[i]]

\* str.replace(r'\s+', ' ', regex=True): each maximal run becomes one space
RECURSIVE CollapseWhitespace(_)
CollapseWhitespace(s) ==
    IF s = <<>> THEN <<>>
    ELSE IF Head(s) \in WhitespaceChars
         THEN IF Len(s) > 1 /\ s[2] \in WhitespaceChars
              THEN CollapseWhitespace(Tail(s))
              ELSE <<" ">> \o CollapseWhitespace(Tail(s))
         ELSE <<Head(s)>> \o CollapseWhitespace(Tail(s))

RECURSIVE StripLeft(_)
StripLeft(s) ==
    IF s # <<>> /\ Head(s) \in WhitespaceChars THEN StripLeft(Tail(s)) ELSE s
RECURSIVE StripRight(_)
StripRight(s) ==
    IF s # <<>> /\ s[Len(s)] \in WhitespaceChars
    THEN StripRight(SubSeq(s, 1, Len(s) - 1)) ELSE s
\* str.strip()
StrStrip(s) == StripRight(StripLeft(s))

\* pat in x
Contains(x, pat) ==
    \E i \in 0..(Len(x) - Len(pat)) : SubSeq(x, i + 1, i + Len(pat)) = pat

\* str.contains(pat, case=False, regex=False): pat.upper() in x.upper()
ContainsNoCase(x, pat) == Contains(StrUpper(x), StrUpper(pat))
phrase == <<"i", "s", " ", "c", "u", "r", "r", "e", "n", "t", "l", "y", " ", "b", "e", "i", "n", "g", " ", "p", "r", "o", "c", "e", "s", "s", "e", "d">>

s_norm(c) == StrLower(StrStrip(CollapseWhitespace(ReplaceInvisible(AsTypeStr(c)))))

\* a mask that keeps every row
keep_every(r, col) == TRUE

keep_mask(r, col) == ~ContainsNoCase(s_norm(r[col]), phrase)

\* config.DB_COLUMNS: the columns of the sheet DB in the order of their
\* indexes
DB_COLUMNS ==
    <<"Task_text", "Sales_Office", "Sales_Group", "Sales_District", "Plant",
      "Sold_to_party", "Name_1", "Ship_to_party", "Ticket", "IDoc_SD_document",
      "Work_item_text", "ID", "Product_Code", "Command_Order_No", "Truck_Type", "Date",
      "Delivery_quantity", "Base_Unit_of_Measure", "Ticket_Date", "Agent", "Object_Type",
      "End_Date", "Stronghold">>

\* config.DB_COLUMNS['WORK_ITEM_TEXT']
k_idx == 10

\* chunk.columns: the columns the table has, in the order of the sheet
ColumnOrder(chunk) ==
    LET present(col) == col \in DOMAIN chunk[1]
    IN  SelectSeq(DB_COLUMNS, present)

\* the column the filter reads: 'Work item text', or without it the column
\* at index k_idx; "" when chunk.columns[k_idx] raises
work_item_col(chunk) ==
    IF HasColumn(chunk, "Work_item_text") THEN "Work_item_text"
    ELSE IF Len(ColumnOrder(chunk)) > k_idx THEN ColumnOrder(chunk)[k_idx + 1]
    ELSE ""

RECURSIVE FilterRows(_, _)
FilterRows(chunk, col) ==
    IF chunk = <<>> THEN <<>>
    ELSE IF keep_mask(Head(chunk), col)
         THEN <<Head(chunk)>> \o FilterRows(Tail(chunk), col)
         ELSE FilterRows(Tail(chunk), col)

filter_batchman_vectorized(chunk) ==
    IF work_item_col(chunk) = "" THEN chunk
    ELSE FilterRows(chunk, work_item_col(chunk))

(* Work item texts of the inputs *)
WT_PhraseTitleCase == <<"I", "s", " ", "C", "u", "r", "r", "e", "n", "t", "l", "y", " ", "B", "e", "i", "n", "g", " ", "P", "r", "o", "c", "e", "s", "s", "e", "d", " ", "b", "y", " ", "X">>
WT_PhraseNbspRuns == <<"I", "S", "U+00A0", "C", "U", "R", "R", "E", "N", "T", "L", "Y", " ", " ", "b", "e", "i", "n", "g", "\t", "p", "r", "o", "c", "e", "s", "s", "e", "d">>
WT_PhraseZeroWidthGap == <<"x", " ", "i", "s", " ", "c", "u", "r", "r", "e", "n", "t", "l", "y", " ", "b", "e", "i", "n", "g", "U+200B", " ", "p", "r", "o", "c", "e", "s", "s", "e", "d">>
WT_BrokenWord == <<"i", "s", " ", "c", "u", "r", "r", "e", "n", "t", "l", "y", " ", "b", "e", "i", "n", "g", " ", "p", "r", "o", "U+200D", "c", "e", "s", "s", "e", "d">>
WT_NearMiss == <<"i", "s", " ", "c", "u", "r", "r", "e", "n", "t", "l", "y", " ", "p", "r", "o", "c", "e", "s", "s", "e", "d">>
WT_Plain == <<"d", "e", "l", "i", "v", "e", "r", "y", " ", "i", "s", " ", "i", "n", "c", "o", "m", "p", "l", "e", "t", "e">>
WorkTexts == {Str(WT_PhraseTitleCase), Str(WT_PhraseNbspRuns), Str(WT_PhraseZeroWidthGap), Str(WT_BrokenWord), Str(WT_NearMiss), Str(WT_Plain), NaN}

----------------------------------------------------------------------------
(* Bounds of the inputs *)
MaxFilterRows == 3
MaxChunk == 2

(* A row of the sheet DB; the inputs vary the columns an operation reads. *)
DbRow(id) ==
    [Task_text |-> Str("COMMAND - Pricing Incomplete"), Plant |-> Num(1),
     Work_item_text |-> Str(WT_Plain), ID |-> Num(id), Date |-> Num(10),
     End_Date |-> Num(12), Agent |-> Str("SRUGELES"), Ticket |-> Num(id),
     Object_Type |-> Str("ZWF")]

----------------------------------------------------------------------------
(* processing.ChunkProcessor *)

Min(a, b) == IF a < b THEN a ELSE b

\* _chunk_generator: df.iloc[start:start + chunk_size]
ChunkAt(df, start, size) == SubSeq(df, start + 1, Min(start + size, Len(df)))

\* one iteration of the loop of process_in_chunks
ProcessChunk ==
    /\ pc = "chunking"
    /\ chunk_start < Len(db_data)
    /\ processed_chunks' = Append(processed_chunks,
            filter_batchman_vectorized(ChunkAt(db_data, chunk_start, chunk_size)))
    /\ chunk_start' = chunk_start + chunk_size
    /\ UNCHANGED <<tie_pick, inventory, files, coordinators_sheet,
                   db_sheet, pc, db_data, coordinators_data, chunk_size, clean_data,
                   enriched_data, categorized_data, performance, issues, report,
                   merge_stats, agent_stats, error>>

\* pd.concat(self.processed_chunks, ignore_index=True), then the reset;
\* pd.concat raises ValueError on an empty list
ConcatChunks ==
    /\ pc = "chunking"
    /\ chunk_start >= Len(db_data)
    /\ IF processed_chunks = <<>>
       THEN /\ pc' = "raised"
            /\ error' = "ValueError: No objects to concatenate"
            /\ UNCHANGED <<clean_data, processed_chunks>>
       ELSE /\ pc' = "cleaned"
            /\ clean_data' = Concat(processed_chunks)
            /\ processed_chunks' = <<>>
            /\ UNCHANGED error
    /\ UNCHANGED <<tie_pick, inventory, files, coordinators_sheet,
                   db_sheet, db_data, coordinators_data, chunk_size, chunk_start,
                   enriched_data, categorized_data, performance, issues, report,
                   merge_stats, agent_stats>>

(* The phrase filter run in chunks over every table of up to MaxFilterRows *)
(* rows, by a ChunkProcessor of every chunk size up to MaxChunk.           *)
InitFilter ==
    /\ pc = "chunking"
    /\ \E n \in 0..MaxFilterRows : \E texts \in [1..n -> WorkTexts] :
          db_data = [i \in 1..n |-> [DbRow(i) EXCEPT !.Work_item_text = texts[i]]]
    /\ chunk_size \in 1..MaxChunk
    /\ processed_chunks = <<>>
    /\ chunk_start = 0
    /\ coordinators_data = <<>>
    /\ clean_data = <<>>
    /\ enriched_data = <<>>
    /\ categorized_data = <<>>
    /\ performance = <<>>
    /\ issues = <<>>
    /\ report = <<>>
    /\ merge_stats = <<>>
    /\ agent_stats = <<>>
    /\ db_sheet = <<>>
    /\ tie_pick \in TiePicks
    /\ inventory = <<>>
    /\ files = {DB_FILE_PATH, COORDINATORS_FILE_PATH}
    /\ coordinators_sheet = <<>>
    /\ error = "none"

NextFilter == ProcessChunk \/ ConcatChunks

SpecFilter == InitFilter /\ [][NextFilter]_vars

----------------------------------------------------------------------------
(* The phrase filter: C4, C9 *)

FilterDone == pc \in {"cleaned", "raised"}

(* C4: for every input table and every positive chunk size,                *)
(* process_in_chunks(df, filter_batchman_vectorized) returns the same rows, *)
(* in the same order, as filter_batchman_vectorized applied once to the    *)
(* whole table.                                                            *)
C4_ChunkedEqualsOnePass ==
    FilterDone =>
        /\ pc = "cleaned"
        /\ clean_data = filter_batchman_vectorized(db_data)

(* The claim's reading of the phrase test, on the raw text: the letters of *)
(* the phrase in any case, each of its spaces standing for a non-empty run *)
(* of whitespace, non-breaking or zero-width characters.                   *)
SeparatorChars == WhitespaceChars \cup InvisibleChars

RECURSIVE PhraseMatchesAt(_, _, _)
PhraseMatchesAt(t, i, j) ==
    IF j > Len(phrase) THEN TRUE
    ELSE IF i > Len(t) THEN FALSE
    ELSE IF phrase[j] = " "
         THEN /\ t[i] \in SeparatorChars
              /\ PhraseMatchesAt(t, i + 1, j + 1) \/ PhraseMatchesAt(t, i + 1, j)
         ELSE /\ LowerChar(t[i]) = phrase[j]
              /\ PhraseMatchesAt(t, i + 1, j + 1)

HasPhrase(c) ==
    c.kind = "str" /\ \E i \in 1..Len(c.txt) : PhraseMatchesAt(c.txt, i, 1)

RECURSIVE RowsWithoutPhrase(_)
RowsWithoutPhrase(rows) ==
    IF rows = <<>> THEN <<>>
    ELSE IF HasPhrase(Head(rows).Work_item_text)
         THEN RowsWithoutPhrase(Tail(rows))
         ELSE <<Head(rows)>> \o RowsWithoutPhrase(Tail(rows))

----------------------------------------------------------------------------
(* Categorisation: C7, C8 *)

MaxCategorizeRows == 2

VocabularyTasks == UNION {Range(INCIDENT_CATEGORIES[k].tasks) : k \in DOMAIN INCIDENT_CATEGORIES}

\* texts that differ from a vocabulary text by case, by a trailing space or
\* by a missing prefix
ForeignTasks == {"command - pricing incomplete", "COMMAND - Pricing Incomplete ",
                 "Ticket not Goods Issued"}

TaskCells == {Str(t) : t \in VocabularyTasks \cup ForeignTasks} \cup {NaN}

\* df['Category'] = ... assigns the column in the caller's table, which is
\* also the table returned
Categorize ==
    /\ pc = "enriched"
    /\ IF CategorizeError(enriched_data) # "none"
       THEN /\ pc' = "raised"
            /\ error' = CategorizeError(enriched_data)
            /\ UNCHANGED <<categorized_data, enriched_data>>
       ELSE /\ pc' = "categorized"
            /\ categorized_data' = categorize_incidents(enriched_data)
            /\ enriched_data' = categorize_incidents(enriched_data)
            /\ UNCHANGED error
    /\ UNCHANGED <<tie_pick, inventory, files, coordinators_sheet,
                   db_sheet, db_data, coordinators_data, chunk_size, processed_chunks,
                   chunk_start, clean_data, performance, issues, report,
                   merge_stats, agent_stats>>

InitCategorize ==
    /\ pc = "enriched"
    /\ \E n \in 0..MaxCategorizeRows : \E tasks \in [1..n -> TaskCells] :
          enriched_data = [i \in 1..n |-> [DbRow(i) EXCEPT !.Task_text = tasks[i]]]
    /\ db_data = <<>>
    /\ coordinators_data = <<>>
    /\ chunk_size = 1
    /\ processed_chunks = <<>>
    /\ chunk_start = 0
    /\ clean_data = <<>>
    /\ categorized_data = <<>>
    /\ performance = <<>>
    /\ issues = <<>>
    /\ report = <<>>
    /\ merge_stats = <<>>
    /\ agent_stats = <<>>
    /\ db_sheet = <<>>
    /\ tie_pick \in TiePicks
    /\ inventory = <<>>
    /\ files = {DB_FILE_PATH, COORDINATORS_FILE_PATH}
    /\ coordinators_sheet = <<>>
    /\ error = "none"

NextCategorize == Categorize

SpecCategorize == InitCategorize /\ [][NextCategorize]_vars

(* C7: after categorize_incidents every row's Category is a member of the  *)
(* closed set {Contract, Pricing, Interface, Incomplete, STPO, Inventory,  *)
(* Other}.                                                                 *)
C7_CategoryInClosedSet ==
    pc = "categorized" =>
        \A i \in DOMAIN categorized_data :
            categorized_data[i].Category \in
                {"Contract", "Pricing", "Interface", "Incomplete", "STPO",
                 "Inventory", "Other"}

CategoriesListing(t) ==
    {INCIDENT_CATEGORIES[k].name :
        k \in {j \in DOMAIN INCIDENT_CATEGORIES : t \in Range(INCIDENT_CATEGORIES[j].tasks)}}

(* C8: a row gets the category whose member list holds its Task text       *)
(* exactly, and 'Other' when no list holds it or the text is missing; rows *)
(* with the same Task text get the same category.                          *)
C8_CategoryOfListedTask ==
    pc = "categorized" =>
        /\ Len(categorized_data) = Len(enriched_data)
        /\ \A i \in DOMAIN categorized_data :
              LET t == categorized_data[i].Task_text
                  c == categorized_data[i].Category
                  listing == IF t.kind = "str" THEN CategoriesListing(t.txt) ELSE {}
              IN  /\ listing # {} => listing = {c}
                  /\ listing = {} => c = "Other"
        /\ \A i, j \in DOMAIN categorized_data :
              categorized_data[i].Task_text = categorized_data[j].Task_text
                  => categorized_data[i].Category = categorized_data[j].Category

C8_Witness ==
    /\ pc = "categorized"
    /\ Len(categorized_data) = 2
    /\ categorized_data[1].Task_text = Str("JWS/APEX - STPO Errors")
    /\ categorized_data[1].Category = "STPO"
    /\ categorized_data[2].Task_text = NaN
    /\ categorized_data[2].Category = "Other"

----------------------------------------------------------------------------
(* processing.merge_with_billing_coordinators *)

DigitChars == <<"0", "1", "2", "3", "4", "5", "6", "7", "8", "9">>
IsDigit(c) == \E i \in 1..10 : DigitChars[i] = c
DigitValue(c) == (CHOOSE i \in 1..10 : DigitChars[i] = c) - 1

RECURSIVE ParseDigits(_)
ParseDigits(s) ==
    IF s = <<>> THEN 0
    ELSE ParseDigits(SubSeq(s, 1, Len(s) - 1)) * 10 + DigitValue(s[Len(s)])

\* pd.to_numeric(errors='coerce'): a number stays, a text of digits is
\* parsed, any other text and the missing value become NaN
to_numeric(c) ==
    CASE c.kind = "num" -> c
      [] c.kind = "str" ->
            IF c.txt # <<>> /\ \A i \in DOMAIN c.txt : IsDigit(c.txt[i])
            THEN Num(ParseDigits(c.txt)) ELSE NaN
      [] OTHER -> NaN

CoercePlant(df) == [i \in DOMAIN df |-> [df[i] EXCEPT !.Plant = to_numeric(df[i].Plant)]]

\* the key comparison of DataFrame.merge: equal numbers match, and a
\* missing key matches a missing key
KeysMatch(a, b) == (isna(a) /\ isna(b)) \/ (~isna(a) /\ ~isna(b) /\ a.num = b.num)

\* a joined row: the left row's columns and the right row's other columns
JoinRow(l, r) ==
    [col \in DOMAIN l \cup (DOMAIN r \ {"Plant"}) |->
        IF col \in DOMAIN l THEN l[col] ELSE r[col]]

RECURSIVE MatchesOf(_, _)
MatchesOf(l, right) ==
    IF right = <<>> THEN <<>>
    ELSE IF KeysMatch(l.Plant, Head(right).Plant)
         THEN <<JoinRow(l, Head(right))>> \o MatchesOf(l, Tail(right))
         ELSE MatchesOf(l, Tail(right))

\* db_df.merge(coordinators_df, on='Plant', how='inner'), the rows in the
\* order of the left table
RECURSIVE InnerMerge(_, _)
InnerMerge(left, right) ==
    IF left = <<>> THEN <<>>
    ELSE MatchesOf(Head(left), right) \o InnerMerge(Tail(left), right)

PlantsOf(df) == {df[i].Plant.num : i \in {j \in DOMAIN df : ~isna(df[j].Plant)}}

\* the figures printed after the merge; the plants without coordinator are
\* printed only under the two conditions of the code
MergeStats(db, coord, enriched) ==
    LET before_count == Len(db)
        after_count == Len(enriched)
        filtered_out == before_count - after_count
        plants_filtered == PlantsOf(db) \ PlantsOf(coord)
    IN  [before_count |-> before_count,
         after_count |-> after_count,
         match_rate |-> <<after_count * 100, before_count>>,
         filtered_out |-> filtered_out,
         plants_reported |-> filtered_out > 0 /\ plants_filtered # {},
         plants_filtered |-> IF filtered_out > 0 THEN plants_filtered ELSE {}]

\* both Plant columns are coerced in the caller's tables (main passes
\* clean_data and coordinators_data); the match rate divides by the number
\* of incident rows
Merge ==
    /\ pc = "cleaned"
    /\ clean_data' = CoercePlant(clean_data)
    /\ coordinators_data' = CoercePlant(coordinators_data)
    /\ enriched_data' = InnerMerge(clean_data', coordinators_data')
    /\ IF Len(clean_data) = 0
       THEN /\ pc' = "raised"
            /\ error' = "ZeroDivisionError"
            /\ UNCHANGED merge_stats
       ELSE /\ pc' = "merged"
            /\ merge_stats' = MergeStats(clean_data', coordinators_data', enriched_data')
            /\ UNCHANGED error
    /\ UNCHANGED <<tie_pick, inventory, files, coordinators_sheet,
                   db_sheet, db_data, chunk_size, processed_chunks, chunk_start,
                   categorized_data, performance, issues, report, agent_stats>>

MaxMergeRows == 2
MaxCoordinatorRows == 2

PlantCells == {Num(1), Num(2), Num(3), Str(<<"2">>), Str(<<"P", "1">>), NaN}
CoordinatorPlantCells == {Num(1), Num(2), Str(<<"n", "/", "a">>), NaN}

\* a row of Billing Coordinators.xlsx
CoordinatorRow(j, plant) ==
    [Plant |-> plant,
     BILLING_COORDINATORS |-> Str(<<"Coordinator A", "Coordinator B", "Coordinator C">>[j]),
     REGION |-> Str("North")]

InitMerge ==
    /\ pc = "cleaned"
    /\ \E n \in 0..MaxMergeRows : \E plants \in [1..n -> PlantCells] :
          clean_data = [i \in 1..n |-> [DbRow(i) EXCEPT !.Plant = plants[i]]]
    /\ \E m \in 0..MaxCoordinatorRows : \E plants \in [1..m -> CoordinatorPlantCells] :
          coordinators_data = [j \in 1..m |-> CoordinatorRow(j, plants[j])]
    /\ db_data = <<>>
    /\ chunk_size = 1
    /\ processed_chunks = <<>>
    /\ chunk_start = 0
    /\ enriched_data = <<>>
    /\ categorized_data = <<>>
    /\ performance = <<>>
    /\ issues = <<>>
    /\ report = <<>>
    /\ merge_stats = <<>>
    /\ agent_stats = <<>>
    /\ db_sheet = <<>>
    /\ tie_pick \in TiePicks
    /\ inventory = <<>>
    /\ files = {DB_FILE_PATH, COORDINATORS_FILE_PATH}
    /\ coordinators_sheet = <<>>
    /\ error = "none"

NextMerge == Merge

SpecMerge == InitMerge /\ [][NextMerge]_vars

(* C5: an incident row whose Plant is missing or non-numeric never appears *)
(* in the joined output, also when the reference table holds a row whose   *)
(* Plant is missing or non-numeric.                                        *)
C5_NullPlantNeverJoined ==
    pc = "merged" =>
        \A i \in DOMAIN clean_data :
            isna(clean_data[i].Plant) =>
                \A k \in DOMAIN enriched_data : enriched_data[k].ID # clean_data[i].ID

Occurrences(row, df) == Cardinality({k \in DOMAIN df : df[k] = row})

(* C6: the output is exactly the pairs (incident row, reference row) with  *)
(* equal non-null Plant, each pair once.                                   *)
C6_JoinIsPairsOfEqualNonNullPlant ==
    pc = "merged" =>
        /\ \A i \in DOMAIN clean_data : \A j \in DOMAIN coordinators_data :
              Occurrences(JoinRow(clean_data[i], coordinators_data[j]), enriched_data) =
                  IF /\ ~isna(clean_data[i].Plant)
                     /\ ~isna(coordinators_data[j].Plant)
                     /\ clean_data[i].Plant.num = coordinators_data[j].Plant.num
                  THEN 1 ELSE 0
        /\ \A k \in DOMAIN enriched_data :
              \E i \in DOMAIN clean_data : \E j \in DOMAIN coordinators_data :
                  enriched_data[k] = JoinRow(clean_data[i], coordinators_data[j])

----------------------------------------------------------------------------
(* transformation.calculate_billing_coordinator_performance *)

\* the agents of main's agent_list, in the order groupby sorts its keys
SortedAgents == <<"CAMVELEZ", "CHREVANS", "JUAHENA", "JUANRUIZ", "MPEREZPA",
                  "REGARCI1", "SPINEDAA", "SRUGELES">>

RowsOfAgent(df, a) == {i \in DOMAIN df : df[i].Agent = Str(a)}

\* groupby(agent_column): the groups of the present agents, sorted; rows
\* whose agent is missing belong to no group
GroupKeys(df) == {k \in DOMAIN SortedAgents : RowsOfAgent(df, SortedAgents[k]) # {}}

\* the day serials pd.to_datetime can hold as nanosecond timestamps counted
\* from the origin 1900-01-01
MinSerial == -81184
MaxSerial == 132318

\* pd.to_datetime(unit='D', origin='1900-01-01', errors='coerce') on a
\* numeric column: the day serial as a date (counted in days from the
\* origin), NaT for a missing or out-of-range serial
to_datetime(c) ==
    IF c.kind = "num" /\ c.num >= MinSerial /\ c.num <= MaxSerial THEN c ELSE NaN

\* a date column that holds a text is not numeric: with an origin given,
\* pd.to_datetime raises ValueError before errors='coerce' applies
DateColumnRaises(df) ==
    \E i \in DOMAIN df : df[i].Date.kind = "str" \/ df[i].End_Date.kind = "str"

\* (end - start).dt.days: missing when either date is
DaysBetween(start, end) ==
    IF isna(to_datetime(start)) \/ isna(to_datetime(end)) THEN NaN
    ELSE Num(to_datetime(end).num - to_datetime(start).num)

\* fillna(0)
DiasFillna(c) == IF isna(c) THEN Num(0) ELSE c

\* work_df.loc[work_df['Dias_Dedicados'] < 0, 'Dias_Dedicados'] = 0
DiasClip(c) == IF ~isna(c) /\ c.num < 0 THEN Num(0) ELSE c

Dias_Dedicados(r) == DiasClip(DiasFillna(DaysBetween(r.Date, r.End_Date)))

RECURSIVE SumOver(_, _)
SumOver(f, S) ==
    IF S = {} THEN 0
    ELSE LET x == CHOOSE y \in S : TRUE IN f[x] + SumOver(f, S \ {x})

\* a float that is the quotient of two integers, or the missing value
Frac(n, d) == [kind |-> "num", num |-> n, den |-> d]
FracNaN == [kind |-> "nan", num |-> 0, den |-> 1]

\* groupby mean: the sum of the present values over their number; missing
\* values are skipped
GroupMean(cells, S) ==
    LET present == {i \in S : ~isna(cells[i])}
    IN  IF present = {} THEN FracNaN
        ELSE Frac(SumOver([i \in present |-> cells[i].num], present), Cardinality(present))

\* nunique: the number of distinct present values
NUnique(df, col, S) == Cardinality({df[i][col] : i \in {j \in S : ~isna(df[j][col])}})

Count(values, v) == Cardinality({i \in DOMAIN values : values[i] = v})

\* the first positions of the values with the highest count
TiedFirst(values) ==
    {i \in DOMAIN values :
        /\ \A j \in DOMAIN values : Count(values, values[j]) <= Count(values, values[i])
        /\ \A j \in 1..(i - 1) : values[j] # values[i]}

\* value_counts().index[0]: a most frequent value.  value_counts() orders
\* the counts with sort_values(ascending=False), whose default kind
\* 'quicksort' is not stable, so which of the values tied for the highest
\* count comes first is left to the installation: tie_pick numbers them
\* in the order they are first met.
MostFrequent(values) ==
    LET tied == TiedFirst(values)
        k    == ((tie_pick - 1) % Cardinality(tied)) + 1
        best == CHOOSE i \in tied : Cardinality({j \in tied : j <= i}) = k
    IN  values[best]

RECURSIVE SeqOfRows(_, _, _)
\* the values of column col in the rows S of df, in row order
SeqOfRows(df, col, S) ==
    IF S = {} THEN <<>>
    ELSE LET last == CHOOSE i \in S : \A j \in S : j <= i
         IN  Append(SeqOfRows(df, col, S \ {last}), df[last][col])

get_category_principal(df, a) ==
    LET S == {i \in RowsOfAgent(df, a) : df[i].Category # "Inventory"}
    IN  IF S = {} THEN "No Category" ELSE MostFrequent(SeqOfRows(df, "Category", S))

IssueRows(df, a, category) == {i \in RowsOfAgent(df, a) : df[i].Category = category}

\* value_counts() leaves the missing texts out; index[0] of an empty
\* result raises IndexError
IssueRaises(df, a, category) ==
    /\ IssueRows(df, a, category) # {}
    /\ \A i \in IssueRows(df, a, category) : isna(df[i].Work_item_text)

get_issue_for_coordinator(df, a, category) ==
    LET S == IssueRows(df, a, category)
    IN  IF S = {} THEN Str(<<"U", "n", "k", "n", "o", "w", "n">>)
        ELSE MostFrequent(SeqOfRows(df, "Work_item_text", {i \in S : ~isna(df[i].Work_item_text)}))

count_issue_occurrences(df, a, category, issue) ==
    Cardinality({i \in IssueRows(df, a, category) : df[i].Work_item_text = issue})

\* a count that takes every row of the agent, whatever its category
count_agent_occurrences(df, a, category) == Cardinality(RowsOfAgent(df, a))

count_category_occurrences(df, a, category) == Cardinality(IssueRows(df, a, category))

\* the fraction num/den in hundredths, the further decimals cut off
RoundDown(num, den) == (num * 100) \div den

\* round(x, 2) of the fraction num/den, in hundredths, halves to even
Round2(num, den) ==
    LET q == (num * 100) \div den
        r == (num * 100) % den
    IN  IF 2 * r > den \/ (2 * r = den /\ q % 2 = 1) THEN q + 1 ELSE q

\* the text of a float with at most two decimals: '33.33', '50.0', '0.0'
FloatText(hundredths) ==
    LET frac == hundredths % 100
    IN  Digits(hundredths \div 100) \o <<".">> \o
        (IF frac % 10 = 0 THEN Digits(frac \div 10) ELSE Digits(frac \div 10) \o Digits(frac % 10))

calculate_category_percentage(df, a, category) ==
    LET total_coordinator == Cardinality(RowsOfAgent(df, a))
        category_count == count_category_occurrences(df, a, category)
    IN  IF total_coordinator = 0 THEN <<"0", "%">>
        ELSE FloatText(Round2(category_count * 100, total_coordinator)) \o <<"%">>

PerformanceRow(df, a) ==
    LET S == RowsOfAgent(df, a)
        main == get_category_principal(df, a)
        issue == get_issue_for_coordinator(df, a, main)
    IN  [Billing_Coordinator |-> a,
         Average_Days_Spent |-> GroupMean([i \in DOMAIN df |-> Dias_Dedicados(df[i])], S),
         Tickets_Processed |-> NUnique(df, "ID", S),
         Associated_Plants |-> NUnique(df, "Plant", S),
         Main_Category |-> main,
         Category_Count |-> count_category_occurrences(df, a, main),
         Category_Percentage |-> calculate_category_percentage(df, a, main),
         Issue |-> issue,
         Occurrences |-> count_issue_occurrences(df, a, main, issue)]

RECURSIVE PerformanceRows(_, _)
\* one row for each group key in K, in key order
PerformanceRows(df, K) ==
    IF K = {} THEN <<>>
    ELSE LET last == CHOOSE k \in K : \A j \in K : j <= k
         IN  Append(PerformanceRows(df, K \ {last}), PerformanceRow(df, SortedAgents[last]))

RECURSIVE DropInventory(_)
\* performance[performance['Main_Category'] != 'Inventory']
DropInventory(perf) ==
    IF perf = <<>> THEN <<>>
    ELSE IF Head(perf).Main_Category # "Inventory"
         THEN <<Head(perf)>> \o DropInventory(Tail(perf))
         ELSE DropInventory(Tail(perf))

required_columns == {"Agent", "Plant", "Date", "End_Date", "Ticket", "Object_Type",
                     "Work_item_text"}

MissingPerformanceColumns(df) == {col \in required_columns : ~HasColumn(df, col)}

\* agg({'ID': 'nunique'}) and work_df[mask]['Category'] raise KeyError when
\* the column is absent;
\* DataFrame.apply(axis=1) on a table without rows returns a table, and
\* assigning it to the column 'Issue' raises ValueError; index[0] of an
\* empty value_counts raises IndexError
PerformanceError(df) ==
    IF MissingPerformanceColumns(df) # {} THEN "none"
    ELSE IF DateColumnRaises(df) THEN "ValueError"
    ELSE IF ~HasColumn(df, "ID") THEN "KeyError"
    ELSE IF GroupKeys(df) = {} THEN "ValueError"
    ELSE IF ~HasColumn(df, "Category") THEN "KeyError"
    ELSE IF \E k \in GroupKeys(df) :
              IssueRaises(df, SortedAgents[k], get_category_principal(df, SortedAgents[k]))
         THEN "IndexError"
         ELSE "none"

calculate_billing_coordinator_performance(df) ==
    IF MissingPerformanceColumns(df) # {} THEN <<>>
    ELSE DropInventory(PerformanceRows(df, GroupKeys(df)))

Performance ==
    /\ pc = "categorized"
    /\ IF PerformanceError(categorized_data) # "none"
       THEN /\ pc' = "raised"
            /\ error' = PerformanceError(categorized_data)
            /\ UNCHANGED performance
       ELSE /\ pc' = "performance_done"
            /\ performance' = calculate_billing_coordinator_performance(categorized_data)
            /\ UNCHANGED error
    /\ UNCHANGED <<tie_pick, inventory, files, coordinators_sheet,
                   db_sheet, db_data, coordinators_data, chunk_size, processed_chunks,
                   chunk_start, clean_data, enriched_data, categorized_data,
                   issues, report, merge_stats,
                   agent_stats>>

----------------------------------------------------------------------------
(* transformation.aggregate_by_issue *)

expected_categories == <<"Contract", "Interface", "Inventory", "Pricing", "STPO", "Incomplete">>

\* agg({'ID': 'count'}): the rows whose ID is present
CountID(df, S) == Cardinality({i \in S : ~isna(df[i].ID)})

\* (Count / Total * 100).round(2).astype(str) + '%'
PercentageText(count, total) ==
    IF total = 0 THEN <<"n", "a", "n", "%">>
    ELSE FloatText(Round2(count * 100, total)) \o <<"%">>

\* the columns of the pivot: the categories met in the groups
PivotColumns(df) ==
    {df[i].Category : i \in {j \in DOMAIN df : ~isna(df[j].Agent)}}

\* the pivot's cell after the fill with '0%'
IssueCell(df, a, category) ==
    IF category \in PivotColumns(df) /\ IssueRows(df, a, category) # {}
    THEN PercentageText(CountID(df, IssueRows(df, a, category)), CountID(df, RowsOfAgent(df, a)))
    ELSE <<"0", "%">>

\* rstrip('%')
RStripPercent(s) == IF s # <<>> /\ s[Len(s)] = "%" THEN SubSeq(s, 1, Len(s) - 1) ELSE s

DotAt(s) == IF \E i \in DOMAIN s : s[i] = "." THEN CHOOSE i \in DOMAIN s : s[i] = "." ELSE 0

\* float(text), in hundredths; NaN for 'nan'
ParseFloat(s) ==
    IF s = <<"n", "a", "n">> THEN NaN
    ELSE IF DotAt(s) = 0 THEN Num(ParseDigits(s) * 100)
    ELSE LET whole == SubSeq(s, 1, DotAt(s) - 1)
             frac == SubSeq(s, DotAt(s) + 1, Len(s))
         IN  Num(ParseDigits(whole) * 100 +
                 (IF Len(frac) = 1 THEN ParseDigits(frac) * 10 ELSE ParseDigits(frac)))

RECURSIVE SumCells(_, _)
\* total += percentage_value over the expected categories
SumCells(row, cats) ==
    IF cats = <<>> THEN Num(0)
    ELSE LET v == ParseFloat(RStripPercent(row[Head(cats)]))
             rest == SumCells(row, Tail(cats))
         IN  IF isna(v) \/ isna(rest) THEN NaN ELSE Num(v.num + rest.num)

\* f'{round(total, 2)}%'
calculate_total(row) ==
    LET total == SumCells(row, expected_categories)
    IN  IF isna(total) THEN <<"n", "a", "n", "%">> ELSE FloatText(total.num) \o <<"%">>

IssueRow(df, a) ==
    LET cells == [c \in Range(expected_categories) |-> IssueCell(df, a, c)]
    IN  [Biller |-> a,
         Contract |-> cells["Contract"], Interface |-> cells["Interface"],
         Inventory |-> cells["Inventory"], Pricing |-> cells["Pricing"],
         STPO |-> cells["STPO"], Incomplete |-> cells["Incomplete"],
         Total |-> calculate_total(cells)]

RECURSIVE IssueRowsOf(_, _)
IssueRowsOf(df, K) ==
    IF K = {} THEN <<>>
    ELSE LET last == CHOOSE k \in K : \A j \in K : j <= k
         IN  Append(IssueRowsOf(df, K \ {last}), IssueRow(df, SortedAgents[last]))

aggregate_by_issue(df) ==
    IF ~HasColumn(df, "Agent") \/ ~HasColumn(df, "Category") THEN <<>>
    ELSE IssueRowsOf(df, GroupKeys(df))

\* agg({'ID': 'count'}) raises KeyError when the column ID is absent
IssuesError(df) ==
    IF ~HasColumn(df, "Agent") \/ ~HasColumn(df, "Category") THEN "none"
    ELSE IF ~HasColumn(df, "ID") THEN "KeyError"
    ELSE "none"

AggregateByIssue ==
    /\ pc = "performance_done"
    /\ IF IssuesError(categorized_data) # "none"
       THEN /\ pc' = "raised"
            /\ error' = IssuesError(categorized_data)
            /\ UNCHANGED issues
       ELSE /\ pc' = "issues_done"
            /\ issues' = aggregate_by_issue(categorized_data)
            /\ UNCHANGED error
    /\ UNCHANGED <<tie_pick, inventory, files, coordinators_sheet,
                   db_sheet, db_data, coordinators_data, chunk_size, processed_chunks,
                   chunk_start, clean_data, enriched_data, categorized_data,
                   performance, report, merge_stats,
                   agent_stats>>

----------------------------------------------------------------------------
(* The per-agent tables: C1, C2, C10 *)

MaxPerformanceRows == 3
MaxDaysRows == 2

PerformanceTasks == {"COMMAND - Ticket not Goods Issued", "COMMAND - Pricing Incomplete",
                     "COMMAND - Assign Contract", "JWS/APEX - STPO Errors",
                     "Ticket not Goods Issued"}
PerformanceAgents == {"SRUGELES", "CAMVELEZ"}

StartDateCells == {Num(10), NaN}
EndDateCells == {Num(13), Num(7), NaN, Num(MaxSerial + 1), Str(<<"n", "/", "a">>)}

InitAggregates ==
    /\ pc = "enriched"
    /\ db_data = <<>>
    /\ coordinators_data = <<>>
    /\ chunk_size = 1
    /\ processed_chunks = <<>>
    /\ chunk_start = 0
    /\ clean_data = <<>>
    /\ categorized_data = <<>>
    /\ performance = <<>>
    /\ issues = <<>>
    /\ report = <<>>
    /\ merge_stats = <<>>
    /\ agent_stats = <<>>
    /\ db_sheet = <<>>
    /\ tie_pick \in TiePicks
    /\ inventory = <<>>
    /\ files = {DB_FILE_PATH, COORDINATORS_FILE_PATH}
    /\ coordinators_sheet = <<>>
    /\ error = "none"

(* Tables of up to MaxPerformanceRows rows that vary the agent and the    *)
(* task text.                                                             *)
InitPerformance ==
    /\ InitAggregates
    /\ \E n \in 0..MaxPerformanceRows :
         \E tasks \in [1..n -> PerformanceTasks] : \E agents \in [1..n -> PerformanceAgents] :
            enriched_data = [i \in 1..n |->
                [DbRow(i) EXCEPT !.Task_text = Str(tasks[i]), !.Agent = Str(agents[i])]]

(* Tables of up to MaxDaysRows rows that vary the agent and the two dates. *)
InitDays ==
    /\ InitAggregates
    /\ \E n \in 0..MaxDaysRows :
         \E starts \in [1..n -> StartDateCells] : \E ends \in [1..n -> EndDateCells] :
         \E agents \in [1..n -> PerformanceAgents] :
            enriched_data = [i \in 1..n |->
                [DbRow(i) EXCEPT !.Date = starts[i], !.End_Date = ends[i],
                                 !.Agent = Str(agents[i])]]

NextPerformance == Categorize \/ Performance \/ AggregateByIssue

SpecPerformance == InitPerformance /\ [][NextPerformance]_vars

SpecDays == InitDays /\ [][NextPerformance]_vars

AgentsOf(df) == {SortedAgents[k] : k \in GroupKeys(df)}

(* C1: an agent all of whose rows have Category 'Inventory' has no row in  *)
(* the table returned by calculate_billing_coordinator_performance.        *)
C1_InventoryOnlyAgentExcluded ==
    pc = "performance_done" =>
        \A a \in AgentsOf(categorized_data) :
            (\A i \in RowsOfAgent(categorized_data, a) :
                categorized_data[i].Category = "Inventory")
            => \A k \in DOMAIN performance : performance[k].Billing_Coordinator # a

Abs(x) == IF x < 0 THEN -x ELSE x

(* C2: for every agent row of aggregate_by_issue the Total column is       *)
(* within 0.1 of 100%.                                                     *)
C2_IssueTotalIsHundred ==
    pc = "issues_done" =>
        \A k \in DOMAIN issues :
            LET total == ParseFloat(RStripPercent(issues[k].Total))
            IN  ~isna(total) /\ Abs(total.num - 10000) <= 10

\* the claim's days of a row: end minus start when both dates are parsable
\* day serials and the difference is not negative, 0 otherwise
ClaimDays(r) ==
    IF /\ r.Date.kind = "num" /\ r.Date.num \in MinSerial..MaxSerial
       /\ r.End_Date.kind = "num" /\ r.End_Date.num \in MinSerial..MaxSerial
       /\ r.End_Date.num >= r.Date.num
    THEN r.End_Date.num - r.Date.num ELSE 0

(* C10: Average_Days_Spent of an agent is the sum over all its rows of     *)
(* max(0, end - start), 0 for a row with a missing or unparsable date,     *)
(* divided by the number of its rows; every agent of the table handed to   *)
(* the aggregator gets this average.                                       *)
C10_AverageOverAllRows ==
    pc \in {"performance_done", "raised"} =>
        \A a \in AgentsOf(categorized_data) :
            LET S == RowsOfAgent(categorized_data, a)
                P == {k \in DOMAIN performance : performance[k].Billing_Coordinator = a}
            IN  /\ Cardinality(P) = 1
                /\ \A k \in P :
                     LET avg == performance[k].Average_Days_Spent
                     IN  /\ avg.kind = "num"
                         /\ avg.num * Cardinality(S) =
                              SumOver([i \in S |-> ClaimDays(categorized_data[i])], S) * avg.den

----------------------------------------------------------------------------
(* transformation.aggregate_by_plant *)

\* the categories in the order groupby sorts them
SortedCategories == <<"Contrato", "Incomplete", "Interface", "Inventory", "Other",
                      "Pricing", "STPO">>

IndexIn(seq, v) == CHOOSE i \in DOMAIN seq : seq[i] = v

\* groupby([agent, 'Plant', 'Category']): the groups whose three keys are
\* present
PlantGroups(df) ==
    {<<IndexIn(SortedAgents, df[i].Agent.txt), df[i].Plant.num,
       IndexIn(SortedCategories, df[i].Category)>> :
        i \in {j \in DOMAIN df : ~isna(df[j].Agent) /\ ~isna(df[j].Plant)}}

PlantGroupRows(df, g) ==
    {i \in DOMAIN df : /\ df[i].Agent = Str(SortedAgents[g[1]])
                       /\ df[i].Plant = Num(g[2])
                       /\ df[i].Category = SortedCategories[g[3]]}

N_veces(df, g) == CountID(df, PlantGroupRows(df, g))

\* the order of the groups: by agent, plant and category
GroupBefore(g, h) ==
    \/ g[1] < h[1]
    \/ g[1] = h[1] /\ g[2] < h[2]
    \/ g[1] = h[1] /\ g[2] = h[2] /\ g[3] < h[3]

\* sort_values(['Biller', 'N-veces'], ascending=[True, False]): a stable
\* sort, equal keys stay in group order
SortedBefore(df, g, h) ==
    \/ g[1] < h[1]
    \/ g[1] = h[1] /\ N_veces(df, g) > N_veces(df, h)
    \/ g[1] = h[1] /\ N_veces(df, g) = N_veces(df, h) /\ GroupBefore(g, h)

\* groupby('Biller').head(3)
Top3(df) ==
    {g \in PlantGroups(df) :
        Cardinality({h \in PlantGroups(df) : h[1] = g[1] /\ SortedBefore(df, h, g)}) < 3}

PlantRow(df, g) ==
    [Biller |-> SortedAgents[g[1]],
     Plants |-> g[2],
     Category |-> SortedCategories[g[3]],
     Porcentaje |-> PercentageText(N_veces(df, g), CountID(df, RowsOfAgent(df, SortedAgents[g[1]]))),
     N_veces |-> N_veces(df, g)]

RECURSIVE PlantRowsOf(_, _)
PlantRowsOf(df, G) ==
    IF G = {} THEN <<>>
    ELSE LET first == CHOOSE g \in G : \A h \in G \ {g} : SortedBefore(df, g, h)
         IN  <<PlantRow(df, first)>> \o PlantRowsOf(df, G \ {first})

aggregate_by_plant(df) ==
    IF ~HasColumn(df, "Agent") THEN <<>> ELSE PlantRowsOf(df, Top3(df))

\* groupby([agent_column, 'Plant', 'Category']) and agg({'ID': 'count'})
\* raise KeyError when one of the columns is absent
PlantsError(df) ==
    IF ~HasColumn(df, "Agent") THEN "none"
    ELSE IF \E col \in {"Plant", "Category", "ID"} : ~HasColumn(df, col) THEN "KeyError"
    ELSE "none"

----------------------------------------------------------------------------
(* output.OutputManager.export_final_report *)

\* the characters of the task texts
TaskChars ==
    "Error Shipto related to Contract" :>
        <<"E", "r", "r", "o", "r", " ", "S", "h", "i", "p", "t", "o", " ", "r", "e", "l", "a", "t", "e", "d", " ", "t", "o", " ", "C", "o", "n", "t", "r", "a", "c", "t">> @@
    "JWS/APEX - Assign Contract" :>
        <<"J", "W", "S", "/", "A", "P", "E", "X", " ", "-", " ", "A", "s", "s", "i", "g", "n", " ", "C", "o", "n", "t", "r", "a", "c", "t">> @@
    "COMMAND - Assign Contract" :>
        <<"C", "O", "M", "M", "A", "N", "D", " ", "-", " ", "A", "s", "s", "i", "g", "n", " ", "C", "o", "n", "t", "r", "a", "c", "t">> @@
    "COMMAND - Process Error Shipto/Contract" :>
        <<"C", "O", "M", "M", "A", "N", "D", " ", "-", " ", "P", "r", "o", "c", "e", "s", "s", " ", "E", "r", "r", "o", "r", " ", "S", "h", "i", "p", "t", "o", "/", "C", "o", "n", "t", "r", "a", "c", "t">> @@
    "JWS/APEX - Process Error Shipto/Contract" :>
        <<"J", "W", "S", "/", "A", "P", "E", "X", " ", "-", " ", "P", "r", "o", "c", "e", "s", "s", " ", "E", "r", "r", "o", "r", " ", "S", "h", "i", "p", "t", "o", "/", "C", "o", "n", "t", "r", "a", "c", "t">> @@
    "COMMAND - Pricing Incomplete" :>
        <<"C", "O", "M", "M", "A", "N", "D", " ", "-", " ", "P", "r", "i", "c", "i", "n", "g", " ", "I", "n", "c", "o", "m", "p", "l", "e", "t", "e">> @@
    "JWS/APEX - Pricing Incomplete" :>
        <<"J", "W", "S", "/", "A", "P", "E", "X", " ", "-", " ", "P", "r", "i", "c", "i", "n", "g", " ", "I", "n", "c", "o", "m", "p", "l", "e", "t", "e">> @@
    "JWS/APEX - Shipment cost not transferred" :>
        <<"J", "W", "S", "/", "A", "P", "E", "X", " ", "-", " ", "S", "h", "i", "p", "m", "e", "n", "t", " ", "c", "o", "s", "t", " ", "n", "o", "t", " ", "t", "r", "a", "n", "s", "f", "e", "r", "r", "e", "d">> @@
    "COMMAND - Shipment cost not transferred" :>
        <<"C", "O", "M", "M", "A", "N", "D", " ", "-", " ", "S", "h", "i", "p", "m", "e", "n", "t", " ", "c", "o", "s", "t", " ", "n", "o", "t", " ", "t", "r", "a", "n", "s", "f", "e", "r", "r", "e", "d">> @@
    "No Accounting Document for Billing Doc" :>
        <<"N", "o", " ", "A", "c", "c", "o", "u", "n", "t", "i", "n", "g", " ", "D", "o", "c", "u", "m", "e", "n", "t", " ", "f", "o", "r", " ", "B", "i", "l", "l", "i", "n", "g", " ", "D", "o", "c">> @@
    "JWS/APEX - Interface Errors" :>
        <<"J", "W", "S", "/", "A", "P", "E", "X", " ", "-", " ", "I", "n", "t", "e", "r", "f", "a", "c", "e", " ", "E", "r", "r", "o", "r", "s">> @@
    "COMMAND - Interface Errors" :>
        <<"C", "O", "M", "M", "A", "N", "D", " ", "-", " ", "I", "n", "t", "e", "r", "f", "a", "c", "e", " ", "E", "r", "r", "o", "r", "s">> @@
    "JWS/APEX - Process Valuation type error" :>
        <<"J", "W", "S", "/", "A", "P", "E", "X", " ", "-", " ", "P", "r", "o", "c", "e", "s", "s", " ", "V", "a", "l", "u", "a", "t", "i", "o", "n", " ", "t", "y", "p", "e", " ", "e", "r", "r", "o", "r">> @@
    "JWS/APEX - Incomplete Deliveries" :>
        <<"J", "W", "S", "/", "A", "P", "E", "X", " ", "-", " ", "I", "n", "c", "o", "m", "p", "l", "e", "t", "e", " ", "D", "e", "l", "i", "v", "e", "r", "i", "e", "s">> @@
    "JWS/APEX - Incomplete Orders" :>
        <<"J", "W", "S", "/", "A", "P", "E", "X", " ", "-", " ", "I", "n", "c", "o", "m", "p", "l", "e", "t", "e", " ", "O", "r", "d", "e", "r", "s">> @@
    "JWS/APEX - Ticket Inco Terms" :>
        <<"J", "W", "S", "/", "A", "P", "E", "X", " ", "-", " ", "T", "i", "c", "k", "e", "t", " ", "I", "n", "c", "o", " ", "T", "e", "r", "m", "s">> @@
    "COMMAND - Incomplete Orders" :>
        <<"C", "O", "M", "M", "A", "N", "D", " ", "-", " ", "I", "n", "c", "o", "m", "p", "l", "e", "t", "e", " ", "O", "r", "d", "e", "r", "s">> @@
    "COMMAND - Ticket Inco Terms" :>
        <<"C", "O", "M", "M", "A", "N", "D", " ", "-", " ", "T", "i", "c", "k", "e", "t", " ", "I", "n", "c", "o", " ", "T", "e", "r", "m", "s">> @@
    "COMMAND - Incomplete Deliveries" :>
        <<"C", "O", "M", "M", "A", "N", "D", " ", "-", " ", "I", "n", "c", "o", "m", "p", "l", "e", "t", "e", " ", "D", "e", "l", "i", "v", "e", "r", "i", "e", "s">> @@
    "JWS/APEX - STPO Errors" :>
        <<"J", "W", "S", "/", "A", "P", "E", "X", " ", "-", " ", "S", "T", "P", "O", " ", "E", "r", "r", "o", "r", "s">> @@
    "COMMAND - Ticket not Goods Issued" :>
        <<"C", "O", "M", "M", "A", "N", "D", " ", "-", " ", "T", "i", "c", "k", "e", "t", " ", "n", "o", "t", " ", "G", "o", "o", "d", "s", " ", "I", "s", "s", "u", "e", "d">> @@
    "JWS/APEX - Ticket not Goods Issued" :>
        <<"J", "W", "S", "/", "A", "P", "E", "X", " ", "-", " ", "T", "i", "c", "k", "e", "t", " ", "n", "o", "t", " ", "G", "o", "o", "d", "s", " ", "I", "s", "s", "u", "e", "d">> @@
    "command - pricing incomplete" :>
        <<"c", "o", "m", "m", "a", "n", "d", " ", "-", " ", "p", "r", "i", "c", "i", "n", "g", " ", "i", "n", "c", "o", "m", "p", "l", "e", "t", "e">> @@
    "COMMAND - Pricing Incomplete " :>
        <<"C", "O", "M", "M", "A", "N", "D", " ", "-", " ", "P", "r", "i", "c", "i", "n", "g", " ", "I", "n", "c", "o", "m", "p", "l", "e", "t", "e", " ">> @@
    "Ticket not Goods Issued" :>
        <<"T", "i", "c", "k", "e", "t", " ", "n", "o", "t", " ", "G", "o", "o", "d", "s", " ", "I", "s", "s", "u", "e", "d">>

\* resumen_df.dropna(subset=['Plant'])
RECURSIVE DropNaPlant(_)
DropNaPlant(df) ==
    IF df = <<>> \/ ~HasColumn(df, "Plant") THEN df
    ELSE IF isna(Head(df).Plant) THEN DropNaPlant(Tail(df))
         ELSE <<Head(df)>> \o DropNaPlant(Tail(df))

TaskString(c) == IF c.kind = "str" THEN TaskChars[c.txt] ELSE <<"n", "a", "n">>

\* the rows whose Task text, as a string, contains the word in any case
RECURSIVE TaskContains(_, _)
TaskContains(df, word) ==
    IF df = <<>> \/ ~HasColumn(df, "Task_text") THEN <<>>
    ELSE IF ContainsNoCase(TaskString(Head(df).Task_text), word)
         THEN <<Head(df)>> \o TaskContains(Tail(df), word)
         ELSE TaskContains(Tail(df), word)

\* the sheet of a table: the table, or the one-row message when it is empty
SheetOf(df, mensaje) == IF df = <<>> THEN <<[Mensaje |-> mensaje]>> ELSE df

\* the sheets of the workbook, by name
Workbook(resumen) ==
    [sheet \in {"Resumen", "APEX", "COMMAND", "Billing Coordinators", "Plants", "Issues"} |->
        CASE sheet = "Resumen" -> resumen
          [] sheet = "APEX" ->
                SheetOf(TaskContains(resumen, <<"A", "P", "E", "X">>),
                        "No se encontraron registros APEX")
          [] sheet = "COMMAND" ->
                SheetOf(TaskContains(resumen, <<"C", "O", "M", "M", "A", "N", "D">>),
                        "No se encontraron registros COMMAND")
          [] sheet = "Billing Coordinators" ->
                SheetOf(calculate_billing_coordinator_performance(resumen),
                        "No se pudo calcular desempeño de coordinadores")
          [] sheet = "Plants" ->
                SheetOf(aggregate_by_plant(resumen), "No se encontraron datos por plant")
          [] OTHER ->
                SheetOf(aggregate_by_issue(resumen), "No se encontraron datos por issue")]

\* the first of the three aggregations that raises
ExportError(resumen) ==
    IF PerformanceError(resumen) # "none" THEN PerformanceError(resumen)
    ELSE IF PlantsError(resumen) # "none" THEN PlantsError(resumen)
    ELSE IssuesError(resumen)

\* the whole of export_final_report: the six tables are computed from the
\* Resumen rows, and the file is written unless a computation raises
Export ==
    /\ pc = "categorized"
    /\ LET resumen == DropNaPlant(categorized_data)
       IN  IF ExportError(resumen) # "none"
           THEN /\ pc' = "raised"
                /\ error' = ExportError(resumen)
                /\ UNCHANGED <<performance, issues, report>>
           ELSE /\ pc' = "exported"
                /\ performance' = calculate_billing_coordinator_performance(resumen)
                /\ issues' = aggregate_by_issue(resumen)
                /\ report' = Workbook(resumen)
                /\ UNCHANGED error
    /\ UNCHANGED <<tie_pick, inventory, files, coordinators_sheet,
                   db_sheet, db_data, coordinators_data, chunk_size, processed_chunks,
                   chunk_start, clean_data, enriched_data, categorized_data,
                   merge_stats, agent_stats>>

MaxExportRows == 2

ExportTasks == {"JWS/APEX - STPO Errors", "COMMAND - Pricing Incomplete",
                "Error Shipto related to Contract"}
ExportPlantCells == {Num(1), Num(2), NaN}

(* Joined tables of up to MaxExportRows rows that vary the task text, the  *)
(* plant and the agent.                                                    *)
InitExport ==
    /\ InitAggregates
    /\ \E n \in 0..MaxExportRows :
         \E tasks \in [1..n -> ExportTasks] : \E plants \in [1..n -> ExportPlantCells] :
         \E agents \in [1..n -> PerformanceAgents] :
            enriched_data = [i \in 1..n |->
                JoinRow([DbRow(i) EXCEPT !.Task_text = Str(tasks[i]), !.Plant = plants[i],
                                         !.Agent = Str(agents[i])],
                        CoordinatorRow(1, plants[i]))]

NextExport == Categorize \/ Export

SpecExport == InitExport /\ [][NextExport]_vars

(* C3: a successful run of export_final_report writes one artifact with    *)
(* all seven tables: Summary, APEX, COMMAND, Performance, Plant top-3,     *)
(* Issue distribution and the Inventory rollup.                            *)
C3_ReportHasSevenTables ==
    pc = "exported" =>
        DOMAIN report = {"Resumen", "APEX", "COMMAND", "Billing Coordinators",
                         "Plants", "Issues", "Inventory"}

SheetNames == {"Resumen", "APEX", "COMMAND", "Billing Coordinators", "Plants", "Issues",
               "Inventory"}

\* the table a sheet is computed from, for the tables the export computes
ComputedTable(sheet, resumen) ==
    CASE sheet = "Resumen" -> resumen
      [] sheet = "APEX" -> TaskContains(resumen, <<"A", "P", "E", "X">>)
      [] sheet = "COMMAND" -> TaskContains(resumen, <<"C", "O", "M", "M", "A", "N", "D">>)
      [] sheet = "Billing Coordinators" ->
            IF PerformanceError(resumen) = "none"
            THEN calculate_billing_coordinator_performance(resumen) ELSE <<>>
      [] sheet = "Plants" -> aggregate_by_plant(resumen)
      [] OTHER -> aggregate_by_issue(resumen)

IsPlaceholder(table) == Len(table) = 1 /\ DOMAIN table[1] = {"Mensaje"}

(* C11: once export_final_report has run, each of the seven named tables   *)
(* has its sheet, no sheet has zero rows, and the sheet of a table that    *)
(* computes to zero rows is exactly one placeholder row.                   *)
C11_EmptyTablesGetPlaceholder ==
    pc \in {"exported", "raised"} =>
        \A sheet \in SheetNames :
            /\ sheet \in DOMAIN report
            /\ Len(report[sheet]) >= 1
            /\ (sheet # "Inventory"
                /\ ComputedTable(sheet, DropNaPlant(categorized_data)) = <<>>)
               => IsPlaceholder(report[sheet])

----------------------------------------------------------------------------
(* Tables with absent columns: C12, C13 *)

MaxColumnRows == 2
MaxDropped == 1

ColumnNames == {"Task_text", "Plant", "Work_item_text", "ID", "Date", "End_Date", "Agent",
                "Ticket", "Object_Type", "BILLING_COORDINATORS", "REGION"}

DropColumns(r, dropped) == [col \in DOMAIN r \ dropped |-> r[col]]

\* the joined rows: they vary the task text and the agent
ColumnsRows(n, tasks, agents) ==
    [i \in 1..n |->
        JoinRow([DbRow(i) EXCEPT !.Task_text = Str(tasks[i]), !.Agent = Str(agents[i])],
                CoordinatorRow(1, Num(1)))]

(* Joined tables, before or after the categorization, from which up to     *)
(* MaxDropped columns are absent.                                          *)
InitColumns ==
    /\ db_data = <<>>
    /\ coordinators_data = <<>>
    /\ chunk_size = 1
    /\ processed_chunks = <<>>
    /\ chunk_start = 0
    /\ clean_data = <<>>
    /\ performance = <<>>
    /\ issues = <<>>
    /\ report = <<>>
    /\ merge_stats = <<>>
    /\ agent_stats = <<>>
    /\ db_sheet = <<>>
    /\ tie_pick \in TiePicks
    /\ inventory = <<>>
    /\ files = {DB_FILE_PATH, COORDINATORS_FILE_PATH}
    /\ coordinators_sheet = <<>>
    /\ error = "none"
    /\ \E n \in 1..MaxColumnRows :
         \E tasks \in [1..n -> ExportTasks] : \E agents \in [1..n -> PerformanceAgents] :
            \/ \E dropped \in {d \in SUBSET ColumnNames : Cardinality(d) <= MaxDropped} :
                  /\ pc = "enriched"
                  /\ enriched_data = [i \in 1..n |->
                        DropColumns(ColumnsRows(n, tasks, agents)[i], dropped)]
                  /\ categorized_data = <<>>
            \/ \E dropped \in {d \in SUBSET (ColumnNames \cup {"Category"}) :
                                    Cardinality(d) <= MaxDropped} :
                  /\ pc = "categorized"
                  /\ enriched_data = [i \in 1..n |->
                        DropColumns(CategorizeRow(ColumnsRows(n, tasks, agents)[i]), dropped)]
                  /\ categorized_data = enriched_data

NextColumns == Categorize \/ Export

SpecColumns == InitColumns /\ [][NextColumns]_vars

\* export_final_report has run on the table
ExportRan == pc \in {"exported", "raised"} /\ categorized_data # <<>>

PerformanceReads == required_columns \cup {"ID", "Category"}
PlantsReads == {"Agent", "Plant", "Category", "ID"}

Lacks(df, cols) == \E col \in cols : ~HasColumn(df, col)

(* C12: when a column that the Performance, Plants or Issues computation   *)
(* reads is absent from the table, export_final_report completes and the   *)
(* table's sheet is the placeholder of the empty table.                    *)
C12_MissingColumnGivesEmptyTable ==
    ExportRan =>
        /\ Lacks(categorized_data, PerformanceReads) =>
              pc = "exported" /\ IsPlaceholder(report["Billing Coordinators"])
        /\ Lacks(categorized_data, PlantsReads) =>
              /\ pc = "exported"
              /\ IsPlaceholder(report["Plants"])
              /\ IsPlaceholder(report["Issues"])

----------------------------------------------------------------------------
(* processing.filter_by_agents *)

\* the list main passes; the default of filter_by_agents has the same entries
agent_list == <<"SRUGELES", "CAMVELEZ", "JUAHENA", "JUANRUIZ", "REGARCI1", "SPINEDAA",
                "MPEREZPA", "CHREVANS">>
default_agent_list == <<"SRUGELES", "CAMVELEZ", "JUAHENA", "JUANRUIZ", "REGARCI1",
                        "SPINEDAA", "MPEREZPA", "CHREVANS">>

\* a membership test that lets the missing agent pass
IsInOrMissing(c, list) == isna(c) \/ (c.kind = "str" /\ c.txt \in Range(list))

\* Series.isin(agent_list)
IsIn(c, list) == c.kind = "str" /\ c.txt \in Range(list)

RECURSIVE AgentRows(_, _)
AgentRows(df, list) ==
    IF df = <<>> THEN <<>>
    ELSE IF IsIn(Head(df).Agent, list)
         THEN <<Head(df)>> \o AgentRows(Tail(df), list)
         ELSE AgentRows(Tail(df), list)

filter_by_agents(df, list) ==
    IF ~HasColumn(df, "Agent") THEN df ELSE AgentRows(df, list)

\* the counts filter_by_agents prints: before, after, removed, and the rows
\* of each agent found
AgentStats(df, filtered) ==
    [before_count |-> Len(df),
     after_count |-> Len(filtered),
     removed_count |-> Len(df) - Len(filtered),
     agents_found |->
        [a \in {filtered[i].Agent.txt : i \in DOMAIN filtered} |->
            Cardinality({i \in DOMAIN filtered : filtered[i].Agent = Str(a)})]]

\* main's call: enriched_data = filter_by_agents(enriched_data, agent_list)
FilterByAgents ==
    /\ pc = "merged"
    /\ pc' = "enriched"
    /\ enriched_data' = filter_by_agents(enriched_data, agent_list)
    /\ agent_stats' = IF HasColumn(enriched_data, "Agent")
                      THEN AgentStats(enriched_data, enriched_data')
                      ELSE agent_stats
    /\ UNCHANGED <<tie_pick, inventory, files, coordinators_sheet,
                   db_sheet, db_data, coordinators_data, chunk_size, processed_chunks,
                   chunk_start, clean_data, categorized_data, performance, issues,
                   report, merge_stats, error>>

----------------------------------------------------------------------------
(* processing.clean_data *)

\* the entry of clean_data: without 'Work item text' the table is returned,
\* with it a ChunkProcessor runs the phrase filter
CleanData ==
    /\ pc = "cleaning"
    /\ IF ~HasColumn(db_data, "Work_item_text")
       THEN /\ pc' = "cleaned"
            /\ clean_data' = db_data
       ELSE /\ pc' = "chunking"
            /\ UNCHANGED clean_data
    /\ processed_chunks' = <<>>
    /\ chunk_start' = 0
    /\ UNCHANGED <<tie_pick, inventory, files, coordinators_sheet,
                   db_sheet, db_data, coordinators_data, chunk_size, enriched_data,
                   categorized_data, performance, issues, report, merge_stats,
                   agent_stats, error>>

\* filter_batchman_vectorized called on a whole table
FilterBatchman ==
    /\ pc = "filtering"
    /\ pc' = "cleaned"
    /\ clean_data' = filter_batchman_vectorized(db_data)
    /\ UNCHANGED <<tie_pick, inventory, files, coordinators_sheet,
                   db_sheet, db_data, coordinators_data, chunk_size, processed_chunks,
                   chunk_start, enriched_data, categorized_data, performance,
                   issues, report, merge_stats, agent_stats, error>>

----------------------------------------------------------------------------
(* The steps without their column: C13 *)

MaxSkipRows == 2

\* a row of the sheet DB with its 23 columns
FullDbRow(id) ==
    [col \in Range(DB_COLUMNS) |->
        IF col \in DOMAIN DbRow(id) THEN DbRow(id)[col] ELSE Str(<<"x">>)]

SkipWorkTexts == {Str(WT_Plain), Str(WT_PhraseTitleCase)}
SkipAgents == {"SRUGELES", "BATCHMAN"}

\* the sets of absent columns: none, the column of each step, the work
\* item text with a column before it, all but ten columns
SkipDropped ==
    {{}, {"Work_item_text"}, {"Work_item_text", "Ticket"}, {"Agent"}, {"Task_text"},
     Range(SubSeq(DB_COLUMNS, k_idx + 1, Len(DB_COLUMNS)))}

(* Tables of the sheet DB from which columns are absent, at the entry of   *)
(* each classifier or filter step.                                         *)
InitSkip ==
    /\ coordinators_data = <<>>
    /\ chunk_size \in 1..MaxChunk
    /\ processed_chunks = <<>>
    /\ chunk_start = 0
    /\ clean_data = <<>>
    /\ categorized_data = <<>>
    /\ performance = <<>>
    /\ issues = <<>>
    /\ report = <<>>
    /\ merge_stats = <<>>
    /\ agent_stats = <<>>
    /\ db_sheet = <<>>
    /\ tie_pick \in TiePicks
    /\ inventory = <<>>
    /\ files = {DB_FILE_PATH, COORDINATORS_FILE_PATH}
    /\ coordinators_sheet = <<>>
    /\ error = "none"
    /\ \E n \in 1..MaxSkipRows : \E dropped \in SkipDropped :
         \E texts \in [1..n -> SkipWorkTexts] : \E codes \in [1..n -> SkipWorkTexts] :
         \E agents \in [1..n -> SkipAgents] :
            LET table == [i \in 1..n |->
                    DropColumns([FullDbRow(i) EXCEPT !.Work_item_text = texts[i],
                                                     !.Product_Code = codes[i],
                                                     !.Agent = Str(agents[i])], dropped)]
            IN  \/ pc \in {"cleaning", "filtering"} /\ db_data = table /\ enriched_data = <<>>
                \/ pc \in {"merged", "enriched"} /\ db_data = <<>> /\ enriched_data = table

NextSkip ==
    CleanData \/ ProcessChunk \/ ConcatChunks \/ FilterBatchman \/ FilterByAgents \/ Categorize

SpecSkip == InitSkip /\ [][NextSkip]_vars

(* C13: a classifier or filter step whose dependent column is absent       *)
(* returns its input rows unchanged, without raising: clean_data and       *)
(* filter_batchman_vectorized without 'Work item text', filter_by_agents   *)
(* without 'Actual (last) agent', categorize_incidents without 'Task text'.*)
C13_StepSkipsWithoutItsColumn ==
    [][/\ (pc \in {"cleaning", "filtering"} /\ ~HasColumn(db_data, "Work_item_text"))
            => (pc' = "cleaned" /\ clean_data' = db_data)
       /\ (pc = "merged" /\ ~HasColumn(enriched_data, "Agent"))
            => (pc' = "enriched" /\ enriched_data' = enriched_data)
       /\ (pc = "enriched" /\ ~HasColumn(enriched_data, "Task_text"))
            => (pc' = "categorized" /\ categorized_data' = enriched_data)]_vars

----------------------------------------------------------------------------
(* The figures of the join: C14, C15 *)

\* the incident rows that have a reference row with an equal present Plant
MatchedRows(db, coord) ==
    {i \in DOMAIN db : /\ ~isna(db[i].Plant)
                       /\ \E j \in DOMAIN coord : /\ ~isna(coord[j].Plant)
                                                  /\ coord[j].Plant.num = db[i].Plant.num}

(* C14: the reported number of filtered records is the number of incident  *)
(* rows without a matching reference row, and the reported match rate is   *)
(* the matched incident rows over the pre-join count, between 0% and 100%, *)
(* for every pair of tables handed to merge_with_billing_coordinators.     *)
C14_AttritionFiguresExact ==
    pc \in {"merged", "raised"} =>
        /\ pc = "merged"
        /\ merge_stats.filtered_out =
              Len(clean_data) - Cardinality(MatchedRows(clean_data, coordinators_data))
        /\ merge_stats.match_rate[1] * Len(clean_data) =
              Cardinality(MatchedRows(clean_data, coordinators_data)) * 100
                  * merge_stats.match_rate[2]
        /\ merge_stats.match_rate[1] >= 0
        /\ merge_stats.match_rate[1] <= 100 * merge_stats.match_rate[2]

\* the present plant values of the incident table that no reference row has
UnmatchedPlants(db, coord) == PlantsOf(db) \ PlantsOf(coord)

(* C15: whenever a present plant value of the incident table occurs in no  *)
(* reference row, merge_with_billing_coordinators reports the count of     *)
(* such plant values, whatever the pre-join and post-join row counts are.  *)
C15_UnmatchedPlantsReported ==
    pc = "merged" =>
        (UnmatchedPlants(clean_data, coordinators_data) # {} =>
            /\ merge_stats.plants_reported
            /\ merge_stats.plants_filtered = UnmatchedPlants(clean_data, coordinators_data))

----------------------------------------------------------------------------
(* io_module.normalize_text *)

DigitLetters == {"0", "1", "2", "3", "4", "5", "6", "7", "8", "9"}

\* re.sub(r'[^a-z0-9\s]', ' ', text)
ReplaceSpecial(s) ==
    [i \in DOMAIN s |->
        IF s[i] \in Range(LowerLetters) \cup DigitLetters \cup WhitespaceChars
        THEN s[i] ELSE " "]

\* the characters the regular expression \w matches
WordChars == Range(LowerLetters) \cup Range(UpperLetters) \cup DigitLetters \cup {"_", "é"}

\* the length of the run of word characters at the head of s
RECURSIVE WordLen(_)
WordLen(s) == IF s # <<>> /\ Head(s) \in WordChars THEN 1 + WordLen(Tail(s)) ELSE 0

\* a replacement that deletes the digits only
RECURSIVE RemoveDigitsOnly(_)
RemoveDigitsOnly(s) ==
    IF s = <<>> THEN <<>>
    ELSE IF Head(s) \in DigitLetters THEN RemoveDigitsOnly(Tail(s))
         ELSE <<Head(s)>> \o RemoveDigitsOnly(Tail(s))

\* re.sub(r'\b\w*\d+\w*\b', '', text): a match starts at the start of a run
\* of word characters that holds a digit, and covers the run
RECURSIVE RemoveMixed(_)
RemoveMixed(s) ==
    IF s = <<>> THEN <<>>
    ELSE IF Head(s) \in WordChars
         THEN LET n == WordLen(s)
                  word == SubSeq(s, 1, n)
                  rest == SubSeq(s, n + 1, Len(s))
              IN  IF \E i \in 1..n : word[i] \in DigitLetters
                  THEN RemoveMixed(rest)
                  ELSE word \o RemoveMixed(rest)
         ELSE <<Head(s)>> \o RemoveMixed(Tail(s))

\* a collapse that leaves the text as it is
CollapseNothing(s) == s

\* re.sub(r'\s+', ' ', text)
CollapseSpaces(s) == CollapseWhitespace(s)

normalize_text(c) ==
    IF isna(c) \/ c = Str(<<>>) THEN c
    ELSE Str(StrStrip(CollapseSpaces(RemoveMixed(ReplaceSpecial(StrLower(AsTypeStr(c)))))))

\* normalize_dataframe_column: df[column_name].apply(normalize_text)
normalize_dataframe_column(df) ==
    IF ~HasColumn(df, "Work_item_text") THEN df
    ELSE [i \in DOMAIN df |->
            [df[i] EXCEPT !.Work_item_text = normalize_text(df[i].Work_item_text)]]

\* an error that does not say which file
FileNotFoundErrorBare(file_path) == "FileNotFoundError"

\* raise FileNotFoundError(f"El archivo no existe: {file_path}")
FileNotFoundError(file_path) == "FileNotFoundError: El archivo no existe: " \o file_path

\* load_excel_data: the sheet DB with its column 'Work item text'
\* normalized; FileNotFoundError when the file does not exist
LoadExcelData ==
    /\ pc = "loading"
    /\ IF DB_FILE_PATH \notin files
       THEN /\ pc' = "raised"
            /\ error' = FileNotFoundError(DB_FILE_PATH)
            /\ UNCHANGED db_data
       ELSE /\ pc' = "loading_coordinators"
            /\ db_data' = normalize_dataframe_column(db_sheet)
            /\ UNCHANGED error
    /\ UNCHANGED <<tie_pick, inventory, files, coordinators_sheet,
                   db_sheet, coordinators_data, chunk_size, processed_chunks,
                   chunk_start, clean_data, enriched_data, categorized_data,
                   performance, issues, report, merge_stats, agent_stats>>

\* load_billing_coordinators: the first sheet of the workbook;
\* FileNotFoundError when the file does not exist, ValueError when the
\* sheet has no column 'Plant'
LoadBillingCoordinators ==
    /\ pc = "loading_coordinators"
    /\ IF COORDINATORS_FILE_PATH \notin files
       THEN /\ pc' = "raised"
            /\ error' = FileNotFoundError(COORDINATORS_FILE_PATH)
            /\ UNCHANGED coordinators_data
       ELSE IF ~HasColumn(coordinators_sheet, "Plant")
       THEN /\ pc' = "raised"
            /\ error' = "ValueError: Columna 'Plant' es requerida en Billing Coordinators"
            /\ UNCHANGED coordinators_data
       ELSE /\ pc' = "cleaning"
            /\ coordinators_data' = coordinators_sheet
            /\ UNCHANGED error
    /\ UNCHANGED <<tie_pick, inventory, files, coordinators_sheet,
                   db_sheet, db_data, chunk_size, processed_chunks,
                   chunk_start, clean_data, enriched_data, categorized_data,
                   performance, issues, report, merge_stats, agent_stats>>

----------------------------------------------------------------------------
(* The normalizer: C16, C17 *)

MaxTextLen == 4

NormalizeChars == {"A", "b", "1", " ", "_", "-", "é", "U+00A0"}

TX_D245 == <<"D", "2", "4", "5", " ", "i", "s", "s", "u", "e">>
TX_Invoice == <<"I", "n", "v", "o", "i", "c", "e", "-", "E", "r", "r", "o", "r", "_", "1", "2", "3">>

NormalizeInputs ==
    {NaN, Num(820), Str(TX_D245), Str(TX_Invoice)}
        \cup {Str(t) : t \in UNION {[1..k -> NormalizeChars] : k \in 0..MaxTextLen}}

(* A sheet of one row whose Work item text is any of the inputs.           *)
InitNormalize ==
    /\ pc = "loading"
    /\ \E c \in NormalizeInputs : db_sheet = <<[DbRow(1) EXCEPT !.Work_item_text = c]>>
    /\ db_data = <<>>
    /\ coordinators_data = <<>>
    /\ chunk_size = 1
    /\ processed_chunks = <<>>
    /\ chunk_start = 0
    /\ clean_data = <<>>
    /\ enriched_data = <<>>
    /\ categorized_data = <<>>
    /\ performance = <<>>
    /\ issues = <<>>
    /\ report = <<>>
    /\ merge_stats = <<>>
    /\ agent_stats = <<>>
    /\ tie_pick \in TiePicks
    /\ inventory = <<>>
    /\ files = {DB_FILE_PATH, COORDINATORS_FILE_PATH}
    /\ coordinators_sheet = <<>>
    /\ error = "none"

NextNormalize == LoadExcelData

SpecNormalize == InitNormalize /\ [][NextNormalize]_vars

Loaded == pc = "loading_coordinators" /\ Len(db_data) = Len(db_sheet)

(* C16: normalize_text applied to a normalized value returns it unchanged, *)
(* for every text and for the missing value; 'D245 issue' gives 'issue'    *)
(* and 'Invoice-Error_123' gives 'invoice error'.                          *)
C16_NormalizeIdempotent ==
    Loaded =>
        \A i \in DOMAIN db_sheet :
            LET x == db_sheet[i].Work_item_text
                y == db_data[i].Work_item_text
            IN  /\ normalize_text(y) = y
                /\ x = Str(TX_D245) => y = Str(<<"i", "s", "s", "u", "e">>)
                /\ x = Str(TX_Invoice) =>
                      y = Str(<<"i", "n", "v", "o", "i", "c", "e", " ", "e", "r", "r", "o", "r">>)

C16_Witness ==
    /\ Loaded
    /\ db_sheet[1].Work_item_text = Str(<<"A", "1", "-", "b">>)
    /\ db_data[1].Work_item_text = Str(<<"b">>)

(* The claim's reading of the normalizer: the tokens are the maximal runs   *)
(* of ASCII letters and digits of the input.                               *)
AsciiAlnum == Range(LowerLetters) \cup Range(UpperLetters) \cup DigitLetters

RECURSIVE TokenLen(_)
TokenLen(s) == IF s # <<>> /\ Head(s) \in AsciiAlnum THEN 1 + TokenLen(Tail(s)) ELSE 0

\* the tokens without a digit, lowercased, in their order
RECURSIVE KeptTokens(_)
KeptTokens(s) ==
    IF s = <<>> THEN <<>>
    ELSE IF Head(s) \in AsciiAlnum
         THEN LET n == TokenLen(s)
                  token == SubSeq(s, 1, n)
              IN  (IF \E i \in 1..n : token[i] \in DigitLetters
                   THEN <<>> ELSE <<StrLower(token)>>)
                      \o KeptTokens(SubSeq(s, n + 1, Len(s)))
         ELSE KeptTokens(Tail(s))

RECURSIVE JoinSpace(_)
JoinSpace(tokens) ==
    IF tokens = <<>> THEN <<>>
    ELSE IF Len(tokens) = 1 THEN tokens[1]
         ELSE tokens[1] \o <<" ">> \o JoinSpace(Tail(tokens))

----------------------------------------------------------------------------
(* The agent allow-list filter: C18 *)

MaxAgentRows == 3

AgentCells == {Str("SRUGELES"), Str("CAMVELEZ"), Str("srugeles"), Str("SRUGELES "),
               Str("BATCHMAN"), NaN}

(* Joined tables of up to MaxAgentRows rows whose agents are on the list,  *)
(* differ from a listed agent by case or by a trailing space, are not on   *)
(* the list, or are missing.                                               *)
InitAgents ==
    /\ pc = "merged"
    /\ \E n \in 0..MaxAgentRows : \E agents \in [1..n -> AgentCells] :
          enriched_data = [i \in 1..n |->
              JoinRow([DbRow(i) EXCEPT !.Agent = agents[i]], CoordinatorRow(1, Num(1)))]
    /\ db_sheet = <<>>
    /\ db_data = <<>>
    /\ coordinators_data = <<>>
    /\ chunk_size = 1
    /\ processed_chunks = <<>>
    /\ chunk_start = 0
    /\ clean_data = <<>>
    /\ categorized_data = <<>>
    /\ performance = <<>>
    /\ issues = <<>>
    /\ report = <<>>
    /\ merge_stats = <<>>
    /\ agent_stats = <<>>
    /\ tie_pick \in TiePicks
    /\ inventory = <<>>
    /\ files = {DB_FILE_PATH, COORDINATORS_FILE_PATH}
    /\ coordinators_sheet = <<>>
    /\ error = "none"

NextAgents == FilterByAgents

SpecAgents == InitAgents /\ [][NextAgents]_vars

\* the 8 entries of the allow-list
ClaimAllowList == {"SRUGELES", "CAMVELEZ", "JUAHENA", "JUANRUIZ", "REGARCI1", "SPINEDAA",
                   "MPEREZPA", "CHREVANS"}

\* the rows of the table whose agent is an entry of the allow-list
ClaimKept(df) ==
    {i \in DOMAIN df : df[i].Agent.kind = "str" /\ df[i].Agent.txt \in ClaimAllowList}

(* C18: filter_by_agents returns exactly the rows whose agent is an entry  *)
(* of the allow-list (exact match, a missing agent is none), in their      *)
(* order and unchanged; the removed count plus the per-agent counts is the *)
(* input row count; the default list has the 8 entries main passes.        *)
C18_AgentFilterExact ==
    [][pc = "merged" =>
        LET K == ClaimKept(enriched_data)
        IN  /\ pc' = "enriched"
            /\ Len(enriched_data') = Cardinality(K)
            /\ \A k \in DOMAIN enriched_data' :
                  enriched_data'[k] =
                      enriched_data[CHOOSE i \in K : Cardinality({j \in K : j <= i}) = k]
            /\ agent_stats'.removed_count
                  + SumOver(agent_stats'.agents_found, DOMAIN agent_stats'.agents_found)
                  = Len(enriched_data)
            /\ Range(default_agent_list) = ClaimAllowList
            /\ Range(agent_list) = ClaimAllowList
            /\ Len(default_agent_list) = Cardinality(ClaimAllowList)
            /\ Len(agent_list) = Cardinality(ClaimAllowList)]_vars

C18_Witness ==
    /\ pc = "enriched"
    /\ agent_stats # <<>>
    /\ agent_stats.before_count = MaxAgentRows
    /\ agent_stats.removed_count = 2
    /\ Len(enriched_data) = 1
    /\ enriched_data[1].ID = Num(2)
    /\ enriched_data[1].Agent = Str("CAMVELEZ")

----------------------------------------------------------------------------
(* The Summary sheet: C19 *)

ColumnSet(df) == {DOMAIN df[i] : i \in DOMAIN df}

(* C19: the Summary sheet written by export_final_report has the row count *)
(* and the column set of the joined and categorized table handed to it.    *)
C19_SummaryHasTheRowsOfTheTable ==
    pc = "exported" =>
        /\ Len(report["Resumen"]) = Len(categorized_data)
        /\ ColumnSet(report["Resumen"]) = ColumnSet(categorized_data)

----------------------------------------------------------------------------
(* Main_Category on ties: C20 *)

ClaimCategoryRows(df, a, c) == {i \in RowsOfAgent(df, a) : df[i].Category = c}

ClaimCategories(df, a) == {df[i].Category : i \in RowsOfAgent(df, a)} \ {"Inventory"}

\* the categories of agent a, Inventory apart, with the highest row count
ClaimMaximal(df, a) ==
    {c \in ClaimCategories(df, a) :
        \A d \in ClaimCategories(df, a) :
            Cardinality(ClaimCategoryRows(df, a, d)) <= Cardinality(ClaimCategoryRows(df, a, c))}

ClaimFirstRow(df, a, c) ==
    CHOOSE i \in ClaimCategoryRows(df, a, c) : \A j \in ClaimCategoryRows(df, a, c) : i <= j

----------------------------------------------------------------------------
(* The agent without a dominant category: C21 *)

OnlyInventory(df, a) ==
    /\ RowsOfAgent(df, a) # {}
    /\ \A i \in RowsOfAgent(df, a) : df[i].Category = "Inventory"

(* C21: for an agent whose rows are all Inventory rows the performance    *)
(* table holds Main_Category 'No Category', Issue 'Unknown', Occurrences  *)
(* 0, Category_Count 0 and a category share of zero, written '0.0%'.      *)
C21_NoCategoryRow ==
    pc = "performance_done" =>
        \A a \in AgentsOf(categorized_data) :
            OnlyInventory(categorized_data, a) =>
                \E k \in DOMAIN performance :
                    /\ performance[k].Billing_Coordinator = a
                    /\ performance[k].Main_Category = "No Category"
                    /\ performance[k].Issue = Str(<<"U", "n", "k", "n", "o", "w", "n">>)
                    /\ performance[k].Occurrences = 0
                    /\ performance[k].Category_Count = 0
                    /\ performance[k].Category_Percentage = <<"0", ".", "0", "%">>

C21_Witness ==
    /\ pc = "performance_done"
    /\ \E a \in AgentsOf(categorized_data) : OnlyInventory(categorized_data, a)
    /\ \E a \in AgentsOf(categorized_data) : ~OnlyInventory(categorized_data, a)

----------------------------------------------------------------------------
(* The issue of the dominant category: C22, C29 *)

MaxIssueRows == 3

IssueTasks == {"COMMAND - Pricing Incomplete", "COMMAND - Assign Contract"}
IssueTextCells == {Str(<<"p", "r", "i", "c", "e">>), Str(<<"t", "a", "x">>), NaN}

(* Tables of up to MaxIssueRows rows that vary the agent, the task text   *)
(* and the Work item text; normalize_text leaves a missing text missing.  *)
InitIssue ==
    /\ InitAggregates
    /\ \E n \in 0..MaxIssueRows :
         \E tasks \in [1..n -> IssueTasks] : \E texts \in [1..n -> IssueTextCells] :
         \E agents \in [1..n -> PerformanceAgents] :
            enriched_data = [i \in 1..n |->
                [DbRow(i) EXCEPT !.Task_text = Str(tasks[i]), !.Work_item_text = texts[i],
                                 !.Agent = Str(agents[i])]]

SpecIssue == InitIssue /\ [][NextPerformance]_vars

ClaimIssueRows(df, a, c, t) ==
    {i \in RowsOfAgent(df, a) : df[i].Category = c /\ df[i].Work_item_text = t}

\* the Work item texts of agent a in category c
ClaimIssueTexts(df, a, c) ==
    {df[i].Work_item_text :
        i \in {j \in RowsOfAgent(df, a) : df[j].Category = c /\ ~isna(df[j].Work_item_text)}}

ClaimIssueFirstRow(df, a, c, t) ==
    CHOOSE i \in ClaimIssueRows(df, a, c, t) : \A j \in ClaimIssueRows(df, a, c, t) : i <= j

----------------------------------------------------------------------------
(* The count and the share of the dominant category: C23 *)

ClaimShare(row) == ParseFloat(RStripPercent(row.Category_Percentage))

(* C23: in each performance row Category_Count is the number of the       *)
(* agent's rows of the dominant category, the category share is that      *)
(* count over the number of all rows of the agent, Inventory rows         *)
(* included, times 100 and rounded to two decimals, and                   *)
(* Occurrences <= Category_Count <= the number of the agent's rows.       *)
C23_CategoryCountAndShare ==
    pc = "performance_done" =>
        \A k \in DOMAIN performance :
            LET row   == performance[k]
                total == Cardinality(RowsOfAgent(categorized_data, row.Billing_Coordinator))
                count == Cardinality({i \in RowsOfAgent(categorized_data, row.Billing_Coordinator) :
                                        categorized_data[i].Category = row.Main_Category})
            IN  /\ row.Category_Count = count
                /\ ~isna(ClaimShare(row))
                /\ 2 * Abs(ClaimShare(row).num * total - 10000 * count) <= total
                /\ row.Occurrences <= row.Category_Count
                /\ row.Category_Count <= total

C23_Witness ==
    /\ pc = "performance_done"
    /\ \E k \in DOMAIN performance :
         /\ performance[k].Category_Count = 2
         /\ Cardinality(RowsOfAgent(categorized_data, performance[k].Billing_Coordinator)) = 3
         /\ \E i \in RowsOfAgent(categorized_data, performance[k].Billing_Coordinator) :
                categorized_data[i].Category = "Inventory"

----------------------------------------------------------------------------
(* The three first plant groups of an agent: C24 *)

MaxPlantRows == 4

PlantTasks == {"COMMAND - Pricing Incomplete", "JWS/APEX - STPO Errors"}
PlantIDCells == {Num(1), NaN}

(* Joined tables of up to MaxPlantRows rows that vary the agent, the plant *)
(* and the task text; the ID of the first row may be missing.              *)
InitPlants ==
    /\ InitAggregates
    /\ \E n \in 0..MaxPlantRows :
         \E tasks \in [1..n -> PlantTasks] : \E plants \in [1..n -> {Num(1), Num(2)}] :
         \E agents \in [1..n -> PerformanceAgents] : \E id \in PlantIDCells :
            enriched_data = [i \in 1..n |->
                JoinRow([DbRow(i) EXCEPT !.Task_text = Str(tasks[i]), !.Plant = plants[i],
                                         !.Agent = Str(agents[i]),
                                         !.ID = IF i = 1 THEN id ELSE Num(i)],
                        CoordinatorRow(1, plants[i]))]

SpecPlants == InitPlants /\ [][NextExport]_vars

\* the rows of agent a, plant p and category c
ClaimGroupRows(df, a, p, c) ==
    {i \in DOMAIN df : df[i].Agent = Str(a) /\ df[i].Plant = Num(p) /\ df[i].Category = c}

\* the (plant, category) groups of agent a
ClaimGroups(df, a) ==
    {<<df[i].Plant.num, df[i].Category>> : i \in RowsOfAgent(df, a)}

ClaimGroupBefore(g, h) ==
    \/ g[1] < h[1]
    \/ g[1] = h[1] /\ IndexIn(SortedCategories, g[2]) < IndexIn(SortedCategories, h[2])

ClaimReturned(plants, a) ==
    {<<plants[k].Plants, plants[k].Category>> : k \in {j \in DOMAIN plants : plants[j].Biller = a}}

ClaimPlantsTable(plants, df) ==
    \A a \in PerformanceAgents :
        LET K     == {k \in DOMAIN plants : plants[k].Biller = a}
            total == Cardinality(RowsOfAgent(df, a))
            back  == ClaimReturned(plants, a)
            size(g) == Cardinality(ClaimGroupRows(df, a, g[1], g[2]))
        IN  /\ Cardinality(K) <= 3
            /\ Cardinality(back) = Cardinality(K)
            /\ back \subseteq ClaimGroups(df, a)
            /\ \A k \in K :
                 LET share == ParseFloat(RStripPercent(plants[k].Porcentaje))
                 IN  /\ plants[k].N_veces = size(<<plants[k].Plants, plants[k].Category>>)
                     /\ ~isna(share)
                     /\ 2 * Abs(share.num * total - 10000 * plants[k].N_veces) <= total
            /\ \A g \in ClaimGroups(df, a) \ back :
                 /\ Cardinality(K) = 3
                 /\ \A h \in back :
                      \/ size(g) < size(h)
                      \/ size(g) = size(h) /\ ClaimGroupBefore(h, g)

(* C24: aggregate_by_plant returns at most three rows for an agent, each  *)
(* an (agent, plant, category) group with its number of rows and its      *)
(* share of the agent's rows; a group left out has no more rows than any  *)
(* returned group of the agent, and of groups with as many rows the       *)
(* earlier in group order is returned.                                    *)
C24_PlantsTopThree ==
    pc = "exported" => ClaimPlantsTable(report["Plants"], report["Resumen"])

----------------------------------------------------------------------------
(* transformation.aggregate_by_inventory *)

inventory_required_columns ==
    {"REGION", "Plant", "Base_Unit_of_Measure", "Delivery_quantity", "Agent", "Task_text"}

inventory_issues == {"COMMAND - Ticket not Goods Issued", "JWS/APEX - Ticket not Goods Issued"}

\* the rows with one of the two task texts and one of the three units;
\* groupby leaves out the rows with a missing key
inventory_processed(df) ==
    {i \in DOMAIN df : /\ IsIn(df[i].Task_text, <<"COMMAND - Ticket not Goods Issued",
                                                  "JWS/APEX - Ticket not Goods Issued">>)
                       /\ IsIn(df[i].Base_Unit_of_Measure, <<"TON", "TO", "YD3">>)}

InventoryGrouped(df) ==
    {i \in inventory_processed(df) :
        ~isna(df[i].REGION) /\ ~isna(df[i].Plant) /\ ~isna(df[i].Agent)}

\* a row of inventory_by_unit: the rows of one region, plant, unit, task
\* text and agent
InventoryUnitRows(df, key, unit, task) ==
    {i \in InventoryGrouped(df) : /\ <<df[i].REGION, df[i].Plant, df[i].Agent>> = key
                                  /\ df[i].Base_Unit_of_Measure = Str(unit)
                                  /\ df[i].Task_text = Str(task)}

\* agg({'Delivery quantity': 'sum'}): the missing quantities count as 0
Quantity(df, S) ==
    LET present == {i \in S : ~isna(df[i].Delivery_quantity)}
    IN  SumOver([i \in present |-> df[i].Delivery_quantity.num], present)

\* pivot_table(index=['Region', 'Plant', 'Biller'], columns='Unit',
\* values='Quantity', fill_value=0): the aggregation is the default one,
\* the mean of the Quantity values that share index and unit, one value
\* for each task text
PivotValue(df, key, unit) ==
    LET tasks == {t \in inventory_issues : InventoryUnitRows(df, key, unit, t) # {}}
    IN  IF tasks = {} THEN Frac(0, 1)
        ELSE Frac(SumOver([t \in tasks |-> Quantity(df, InventoryUnitRows(df, key, unit, t))],
                          tasks),
                  Cardinality(tasks))

InventoryKeys(df) == {<<df[i].REGION, df[i].Plant, df[i].Agent>> : i \in InventoryGrouped(df)}

\* the sum of a unit's column, in halves
UnitTotal2(df, unit) ==
    SumOver([key \in InventoryKeys(df) |->
                (2 * PivotValue(df, key, unit).num) \div PivotValue(df, key, unit).den],
            InventoryKeys(df))

\* (value / total * 100).round(2) if total > 0 else 0.0, in hundredths
UnitPercent(df, key, unit) ==
    IF UnitTotal2(df, unit) > 0
    THEN Round2(((2 * PivotValue(df, key, unit).num) \div PivotValue(df, key, unit).den) * 100,
                UnitTotal2(df, unit))
    ELSE 0

InventoryRow(df, key) ==
    [Region |-> key[1], Plant |-> key[2], Biller |-> key[3],
     Ton |-> PivotValue(df, key, "TON"),
     To  |-> PivotValue(df, key, "TO"),
     YD3 |-> PivotValue(df, key, "YD3"),
     Ton_pct |-> UnitPercent(df, key, "TON"),
     To_pct  |-> UnitPercent(df, key, "TO"),
     YD3_pct |-> UnitPercent(df, key, "YD3")]

\* the order of the pivot's index: by plant, then by agent (one region)
InventoryKeyBefore(g, h) ==
    \/ g[2].num < h[2].num
    \/ g[2] = h[2] /\ IndexIn(SortedAgents, g[3].txt) < IndexIn(SortedAgents, h[3].txt)

RECURSIVE InventoryRowsOf(_, _)
InventoryRowsOf(df, K) ==
    IF K = {} THEN <<>>
    ELSE LET first == CHOOSE g \in K : \A h \in K \ {g} : InventoryKeyBefore(g, h)
         IN  <<InventoryRow(df, first)>> \o InventoryRowsOf(df, K \ {first})

aggregate_by_inventory(df) ==
    IF \E col \in inventory_required_columns : ~HasColumn(df, col) THEN <<>>
    ELSE IF inventory_processed(df) = {} THEN <<>>
    ELSE InventoryRowsOf(df, InventoryKeys(df))

AggregateByInventory ==
    /\ pc = "categorized"
    /\ pc' = "inventory_done"
    /\ inventory' = aggregate_by_inventory(categorized_data)
    /\ UNCHANGED <<tie_pick, files, coordinators_sheet, db_sheet, db_data, coordinators_data, chunk_size, processed_chunks,
                   chunk_start, clean_data, enriched_data, categorized_data, performance,
                   issues, report, merge_stats, agent_stats, error>>

----------------------------------------------------------------------------
(* The inventory rollup: C25 *)

MaxInventoryRows == 2

InventoryTasks == inventory_issues \cup {"COMMAND - Pricing Incomplete"}
InventoryUnitCells == {Str("TON"), Str("YD3"), Str("KG")}
InventoryQuantityCells == {Num(1), Num(3), NaN}

(* Joined tables of up to MaxInventoryRows rows that vary the task text,  *)
(* the unit, the delivery quantity, the plant and the agent.              *)
InitInventory ==
    /\ InitAggregates
    /\ \E n \in 0..MaxInventoryRows :
         \E tasks \in [1..n -> InventoryTasks] : \E units \in [1..n -> InventoryUnitCells] :
         \E quantities \in [1..n -> InventoryQuantityCells] :
         \E plants \in [1..n -> {Num(1), Num(2)}] : \E agents \in [1..n -> PerformanceAgents] :
            enriched_data = [i \in 1..n |->
                JoinRow(JoinRow([DbRow(i) EXCEPT !.Task_text = Str(tasks[i]),
                                                 !.Plant = plants[i],
                                                 !.Agent = Str(agents[i])],
                                [Plant |-> plants[i], Base_Unit_of_Measure |-> units[i],
                                 Delivery_quantity |-> quantities[i]]),
                        CoordinatorRow(1, plants[i]))]

NextInventory == Categorize \/ AggregateByInventory

SpecInventory == InitInventory /\ [][NextInventory]_vars

\* the sum of Delivery quantity over the rows of a region, plant, agent and
\* unit whose Task text is one of the two variants
ClaimQuantity(df, row, unit) ==
    LET S == {i \in DOMAIN df : /\ df[i].REGION = row.Region
                                /\ df[i].Plant = row.Plant
                                /\ df[i].Agent = row.Biller
                                /\ df[i].Base_Unit_of_Measure = Str(unit)
                                /\ df[i].Task_text.txt \in inventory_issues
                                /\ ~isna(df[i].Delivery_quantity)}
    IN  SumOver([i \in S |-> df[i].Delivery_quantity.num], S)

(* C25: in every row of the table of aggregate_by_inventory the value of  *)
(* each unit TON, TO and YD3 is the sum of Delivery quantity over the     *)
(* input rows of that region, plant, agent and unit whose Task text is    *)
(* one of the two 'Ticket not Goods Issued' texts, both texts together.   *)
C25_UnitValueIsSumOfBothVariants ==
    pc = "inventory_done" =>
        \A k \in DOMAIN inventory :
            /\ inventory[k].Ton.num = ClaimQuantity(categorized_data, inventory[k], "TON") * inventory[k].Ton.den
            /\ inventory[k].To.num  = ClaimQuantity(categorized_data, inventory[k], "TO") * inventory[k].To.den
            /\ inventory[k].YD3.num = ClaimQuantity(categorized_data, inventory[k], "YD3") * inventory[k].YD3.den

----------------------------------------------------------------------------
(* main: C26, C30 *)

MaxMainRows == 2
MaxMainCoordinatorRows == 1

MainWorkTexts == {Str(WT_Plain), Str(WT_PhraseTitleCase)}
MainPlantCells == {Num(1), Num(2), NaN}
MainAgents == {"SRUGELES", "BATCHMAN"}
MainCoordinatorPlantCells == {Num(1), NaN}

(* The start of main: each of the two files exists or not; the sheet DB   *)
(* has up to MaxMainRows rows that vary the Work item text, the plant and *)
(* the agent, the reference sheet up to MaxMainCoordinatorRows rows.      *)
InitMain ==
    /\ pc = "loading"
    /\ files \in SUBSET {DB_FILE_PATH, COORDINATORS_FILE_PATH}
    /\ \E n \in 0..MaxMainRows :
         \E texts \in [1..n -> MainWorkTexts] : \E plants \in [1..n -> MainPlantCells] :
         \E agents \in [1..n -> MainAgents] :
            db_sheet = [i \in 1..n |->
                [DbRow(i) EXCEPT !.Work_item_text = texts[i], !.Plant = plants[i],
                                 !.Agent = Str(agents[i])]]
    /\ \E m \in 0..MaxMainCoordinatorRows : \E plants \in [1..m -> MainCoordinatorPlantCells] :
          coordinators_sheet = [j \in 1..m |-> CoordinatorRow(j, plants[j])]
    /\ chunk_size \in 1..MaxChunk
    /\ db_data = <<>>
    /\ coordinators_data = <<>>
    /\ processed_chunks = <<>>
    /\ chunk_start = 0
    /\ clean_data = <<>>
    /\ enriched_data = <<>>
    /\ categorized_data = <<>>
    /\ performance = <<>>
    /\ issues = <<>>
    /\ report = <<>>
    /\ merge_stats = <<>>
    /\ agent_stats = <<>>
    /\ tie_pick \in TiePicks
    /\ inventory = <<>>
    /\ error = "none"

NextMain ==
    \/ LoadExcelData
    \/ LoadBillingCoordinators
    \/ CleanData
    \/ ProcessChunk
    \/ ConcatChunks
    \/ Merge
    \/ FilterByAgents
    \/ Categorize
    \/ Export

SpecMain == InitMain /\ [][NextMain]_vars

\* no step after the load step has run and nothing is written
ClaimNothingAfterLoad ==
    /\ pc \in {"loading", "loading_coordinators", "raised"}
    /\ clean_data = <<>>
    /\ processed_chunks = <<>>
    /\ enriched_data = <<>>
    /\ categorized_data = <<>>
    /\ report = <<>>

\* the error reported when a source is absent: the first one main reads
ClaimMissingSourceError ==
    IF DB_FILE_PATH \notin files
    THEN "FileNotFoundError: El archivo no existe: 2025-08 DB WF.xlsb"
    ELSE "FileNotFoundError: El archivo no existe: Billing Coordinators.xlsx"

(* C26: when one of the two input files is absent the run ends at the     *)
(* load step with an error that names the absent file, no later step runs *)
(* and nothing is written; a run that reaches the end has written the     *)
(* workbook.                                                              *)
C26_AbsentSourceAbortsAtLoad ==
    /\ [](files # {DB_FILE_PATH, COORDINATORS_FILE_PATH} =>
            /\ ClaimNothingAfterLoad
            /\ pc = "raised" => error = ClaimMissingSourceError)
    /\ [](pc = "exported" => "Resumen" \in DOMAIN report)
    /\ [][(pc = "loading" /\ DB_FILE_PATH \notin files) => pc' = "raised"]_vars
    /\ [][(pc = "loading_coordinators" /\ COORDINATORS_FILE_PATH \notin files)
            => pc' = "raised"]_vars

C26_Witness ==
    /\ pc = "raised"
    /\ files = {DB_FILE_PATH}
    /\ db_data # <<>>
    /\ error = "FileNotFoundError: El archivo no existe: Billing Coordinators.xlsx"

----------------------------------------------------------------------------
(* The tables handed to the join: C27 *)

(* C27: merge_with_billing_coordinators leaves the incident table and the *)
(* reference table passed to it as they were, the Plant values included.  *)
C27_MergeLeavesItsArgumentsUnchanged ==
    [][pc = "cleaned" =>
          /\ clean_data' = clean_data
          /\ coordinators_data' = coordinators_data]_vars

----------------------------------------------------------------------------
(* A ChunkProcessor used for several calls: C28 *)

MaxCallRows == 2
MaxStaleChunks == 2

\* a process_func that raises on a chunk with a missing Work item text and
\* filters the phrase rows otherwise
process_func_raises(chunk) == \E i \in DOMAIN chunk : isna(chunk[i].Work_item_text)
process_func(chunk) == filter_batchman_vectorized(chunk)

CallTexts == {Str(WT_Plain), Str(WT_PhraseTitleCase), NaN}
CallTables ==
    UNION {{[i \in 1..n |-> [DbRow(i) EXCEPT !.Work_item_text = texts[i]]] :
                texts \in [1..n -> CallTexts]} : n \in 0..MaxCallRows}

\* one turn of the loop of process_in_chunks: the chunk is processed and
\* appended, or process_func raises and the call ends with the chunks
\* appended so far left in processed_chunks
ProcessChunkOrRaise ==
    /\ pc = "chunking"
    /\ chunk_start < Len(db_data)
    /\ IF process_func_raises(ChunkAt(db_data, chunk_start, chunk_size))
       THEN /\ pc' = "raised"
            /\ error' = "ValueError"
            /\ UNCHANGED <<processed_chunks, chunk_start>>
       ELSE /\ processed_chunks' = Append(processed_chunks,
                    process_func(ChunkAt(db_data, chunk_start, chunk_size)))
            /\ chunk_start' = chunk_start + chunk_size
            /\ UNCHANGED <<pc, error>>
    /\ UNCHANGED <<tie_pick, inventory, files, coordinators_sheet,
                   db_sheet, db_data, coordinators_data, chunk_size, clean_data,
                   enriched_data, categorized_data, performance, issues, report,
                   merge_stats, agent_stats>>

\* a call of process_in_chunks, the first one or one after a call that
\* returned or raised: the generator starts over, and processed_chunks is
\* what the call before left
ProcessInChunks ==
    /\ pc \in {"constructed", "cleaned", "raised"}
    /\ Len(processed_chunks) < MaxStaleChunks
    /\ pc' = "chunking"
    /\ db_data' \in CallTables
    /\ chunk_start' = 0
    /\ clean_data' = <<>>
    /\ error' = "none"
    /\ UNCHANGED <<tie_pick, inventory, files, coordinators_sheet,
                   db_sheet, coordinators_data, chunk_size, processed_chunks,
                   enriched_data, categorized_data, performance, issues, report,
                   merge_stats, agent_stats>>

(* A ChunkProcessor just constructed, before its first call.            *)
InitChunks ==
    /\ pc = "constructed"
    /\ chunk_size \in 1..MaxChunk
    /\ db_data = <<>>
    /\ coordinators_data = <<>>
    /\ processed_chunks = <<>>
    /\ chunk_start = 0
    /\ clean_data = <<>>
    /\ enriched_data = <<>>
    /\ categorized_data = <<>>
    /\ performance = <<>>
    /\ issues = <<>>
    /\ report = <<>>
    /\ merge_stats = <<>>
    /\ agent_stats = <<>>
    /\ db_sheet = <<>>
    /\ tie_pick \in TiePicks
    /\ inventory = <<>>
    /\ files = {DB_FILE_PATH, COORDINATORS_FILE_PATH}
    /\ coordinators_sheet = <<>>
    /\ error = "none"

NextChunks == ProcessInChunks \/ ProcessChunkOrRaise \/ ConcatChunks

SpecChunks == InitChunks /\ [][NextChunks]_vars

(* C28: over any sequence of process_in_chunks calls on one               *)
(* ChunkProcessor, calls in which process_func raises included, a call    *)
(* that returns yields the processed rows of its own input, each chunk    *)
(* once and in order, and processed_chunks is empty when a call starts.   *)
C28_CallYieldsItsOwnRows ==
    /\ (pc = "cleaned" => clean_data = process_func(db_data))
    /\ (pc = "chunking" /\ chunk_start = 0 => processed_chunks = <<>>)


(* C29: on every table with the required columns                          *)
(* calculate_billing_coordinator_performance returns without raising, and *)
(* for every agent with a dominant category Issue is a Work item text of  *)
(* the agent's rows of that category, with Occurrences >= 1, also when    *)
(* the Work item text of all those rows is missing.                       *)
C29_PerformanceReturnsWithAnIssue ==
    (pc \in {"performance_done", "raised"} /\ MissingPerformanceColumns(categorized_data) = {}) =>
        /\ pc = "performance_done"
        /\ \A k \in DOMAIN performance :
              performance[k].Main_Category # "No Category" =>
                  /\ performance[k].Issue \in
                        ClaimIssueTexts(categorized_data, performance[k].Billing_Coordinator,
                                        performance[k].Main_Category)
                  /\ performance[k].Occurrences >= 1


----------------------------------------------------------------------------
(* main: the order of the stages, C30 *)

\* the steps of main in the order of the claim; every stage may raise
ClaimStageOrder ==
    {<<"loading", "loading_coordinators">>, <<"loading_coordinators", "cleaning">>,
     <<"cleaning", "chunking">>, <<"cleaning", "cleaned">>, <<"chunking", "cleaned">>,
     <<"cleaned", "merged">>, <<"merged", "enriched">>, <<"enriched", "categorized">>,
     <<"categorized", "exported">>} \cup
    {<<stage, "raised">> : stage \in {"loading", "loading_coordinators", "cleaning", "chunking",
                                      "cleaned", "merged", "enriched", "categorized"}}

\* the plant of the loaded row equals the plant of a row of the reference sheet
ClaimPlantMatched(row) ==
    \E j \in DOMAIN coordinators_sheet :
        /\ ~isna(to_numeric(row.Plant))
        /\ ~isna(to_numeric(coordinators_sheet[j].Plant))
        /\ to_numeric(row.Plant).num = to_numeric(coordinators_sheet[j].Plant).num

\* the loaded rows without the phrase, with a matched plant and a listed agent
ClaimSourceRows ==
    {i \in DOMAIN db_data :
        /\ ~HasPhrase(db_data[i].Work_item_text)
        /\ ClaimPlantMatched(db_data[i])
        /\ db_data[i].Agent.kind = "str"
        /\ db_data[i].Agent.txt \in {"SRUGELES", "CAMVELEZ", "JUAHENA", "JUANRUIZ", "REGARCI1",
                                     "SPINEDAA", "MPEREZPA", "CHREVANS"}}

\* the agents named by the rows of a sheet of the workbook
ClaimSheetAgents(sheet, column) ==
    {report[sheet][k][column] : k \in {k \in DOMAIN report[sheet] : column \in DOMAIN report[sheet][k]}}

ClaimReportAgents ==
    ClaimSheetAgents("Billing Coordinators", "Billing_Coordinator")
        \cup ClaimSheetAgents("Plants", "Biller") \cup ClaimSheetAgents("Issues", "Biller")

ClaimFromSourceRows ==
    /\ \A k \in DOMAIN report["Resumen"] :
          \E i \in ClaimSourceRows :
              /\ report["Resumen"][k].ID = db_data[i].ID
              /\ report["Resumen"][k].Agent = db_data[i].Agent
              /\ report["Resumen"][k].Work_item_text = db_data[i].Work_item_text
    /\ \A a \in ClaimReportAgents : \E i \in ClaimSourceRows : db_data[i].Agent = Str(a)

(* C30: in a run of main the stages run in the order load, phrase filter  *)
(* with all batches reassembled, join, agent filter, categorization,      *)
(* export; in a complete run every Summary row and every agent of the     *)
(* Performance, Plants and Issues tables comes from a loaded row without  *)
(* the phrase, with a plant of the reference sheet and a listed agent.    *)
C30_StagesInOrderAndRowsPassEveryFilter ==
    /\ [][pc' # pc => <<pc, pc'>> \in ClaimStageOrder]_vars
    /\ [](pc = "cleaned" => clean_data = RowsWithoutPhrase(db_data))
    /\ [](pc = "exported" => ClaimFromSourceRows)

\* a complete run on two loaded rows in batches of one row, of which the
\* phrase filter removed one and the other reached the Summary
C30_Witness ==
    /\ pc = "exported"
    /\ chunk_size = 1
    /\ Len(db_data) = 2
    /\ \E i \in DOMAIN db_data : HasPhrase(db_data[i].Work_item_text)
    /\ Len(report["Resumen"]) = 1
    /\ ClaimReportAgents = {"SRUGELES"}

============================================================================
